---- MODULE Spec2Model ----
(***************************************************************************)
(* Migration-plan lifecycle of mtv-api-tests: plan submission              *)
(* (migrate_vms, run_migration), the migration state poller                *)
(* (wait_for_migration_complate), the lookup of a plan's Migration         *)
(* (_find_migration_for_plan) and of its failed step                       *)
(* (_get_failed_migration_step) and the expected-failure flow of           *)
(* migrate_vms, all of src/utilities/mtv_migration.py; the post-migration  *)
(* verifier (check_vms and its check functions) of                         *)
(* src/utilities/post_migration.py; the vSphere adapter                    *)
(* (src/libs/providers/vmware.py), the source_provider fixture             *)
(* (src/conftest.py), gen_network_map_list (src/utilities/utils.py),       *)
(* run_ceph_cleanup (src/utilities/ceph.py) and session_teardown           *)
(* (src/utilities/pytest_utils.py).                                        *)
(*                                                                         *)
(* Spec runs migrate_vms for plans without copy-offload and with an        *)
(* inventory handed over; SpecSubmit runs the submission for every         *)
(* combination of the two; SpecVms interleaves the adapter's calls with    *)
(* session expiries; the other specifications run one function each.       *)
(*                                                                         *)
(* Python's None is the string Absent, or the record None where the other  *)
(* values are records; an exception is a record                            *)
(* [ok |-> FALSE, value |-> <exception class>].                            *)
(***************************************************************************)
EXTENDS Integers, Sequences, FiniteSets

VARIABLES
    pc,               \* position of the test process inside migrate_vms
    plan,             \* the plan dict handed to migrate_vms, without its VMs' ids
    outcome,          \* how migrate_vms ended: "none", "returned" or the exception class
    planCreated,      \* the cluster holds the Plan resource
    planReady,        \* the cluster-side Plan carries condition Ready=True
    readyObserved,    \* plan.wait_for_condition(READY, TRUE) returned
    migrationCreated, \* the cluster holds the Migration resource of the plan
    planConds,        \* plan.instance.status.conditions
    migStatus,        \* migration.instance.status
    sampled,          \* the samples TimeoutSampler yielded, in order
    last_status,      \* wait_for_migration_complate's local last_status
    statusLog,        \* the status lines wait_for_migration_complate logged
    wait,             \* how wait_for_migration_complate ended
    failed_steps,     \* the dict _get_all_vms_failed_steps returned
    classifierCalls,  \* calls of validate_all_vms_same_step
    checkVmsCalls,    \* calls of check_vms
    lookupVm,         \* vm_name argument of a direct _get_failed_migration_step call
    lookupResult,     \* result of that call
    api,              \* what Migration.get answers to _find_migration_for_plan
    findResult,       \* result of a direct _find_migration_for_plan call
    inventory,        \* source_provider_inventory argument of migrate_vms
    vm_ids,           \* vm["id"] of the plan dict's VMs, by VM name
    run_kwargs,       \* copyoffload and pvc_name_template handed to run_migration
    planSpec,         \* VM list and PVC name template of the created Plan
    planSecret,       \* the cluster holds the plan-scoped secret
    secretObserved,   \* wait_for_plan_secret returned
    checkArgs,        \* arguments of a direct check_network or check_storage call
    checkResult,      \* what that call recorded and how it ended
    vcfg,             \* arguments of check_vms
    vcur,             \* check_vms' loop: index of the VM and what was read for it
    vlog,             \* checks run and failures recorded for that VM, VMs completed
    netArgs,          \* arguments of gen_network_map_list
    network_map_list, \* what gen_network_map_list returned
    vsphere,          \* VMWareProvider: state of self.api and the VMs the vCenter holds
    vmsCall,          \* the last call of VMWareProvider.vms: its steps and how it ended
    scope,            \* the source_provider fixture: what it was given and what it did
    ceph,             \* the ceph pool and what run_ceph_cleanup did to it
    teardown          \* session_teardown: the session's resources and what was done to them

vars == <<pc, plan, outcome, planCreated, planReady, readyObserved, migrationCreated,
          planConds, migStatus, sampled, last_status, statusLog, wait, failed_steps,
          classifierCalls, checkVmsCalls, lookupVm, lookupResult, api, findResult,
          inventory, vm_ids, run_kwargs, planSpec, planSecret, secretObserved,
          checkArgs, checkResult, vcfg, vcur, vlog, netArgs, network_map_list,
          vsphere, vmsCall, scope, ceph, teardown>>

findVars == <<api, findResult>>
submitVars == <<inventory, vm_ids, run_kwargs, planSpec, planSecret, secretObserved>>
verifyVars == <<checkArgs, checkResult, vcfg, vcur, vlog>>
\* what the provider adapter, the fixtures and the session helpers work on
netMapVars == <<netArgs, network_map_list>>
adapterVars == <<vsphere, vmsCall>>
sideVars == <<netMapVars, adapterVars, scope, ceph, teardown>>
\* what migrate_vms and its helpers work on
migrateVars == <<plan, planCreated, planReady, readyObserved, migrationCreated, planConds,
                 migStatus, sampled, last_status, statusLog, wait, failed_steps, classifierCalls,
                 checkVmsCalls, lookupVm, lookupResult>>

\* ------------------------------------------------------------------ bounds

\* samples TimeoutSampler takes before the wait_timeout expires
MaxSamples == 3
\* longest condition list handed to the sampling function
MaxConds == 2
\* longest per-VM pipeline
MaxPipeline == 3

\* ------------------------------------------------------------ vocabulary

Absent == "<None>"

SUCCEEDED == "Succeeded"
FAILED == "Failed"
EXECUTING == "Executing"
STATUS_TRUE == "True"
Terminal == {SUCCEEDED, FAILED}

Categories == {"Advisory", "Critical", "advisory"}
Statuses == {"True", "False", "true"}
CondTypes == {"Succeeded", "Failed", "Ready", "Executing"}
Conditions == [category : Categories, status : Statuses, type : CondTypes]

RECURSIVE SeqsUpTo(_, _)
SeqsUpTo(S, n) ==
    IF n = 0 THEN {<<>>}
    ELSE LET shorter == SeqsUpTo(S, n - 1)
         IN  shorter \cup {Append(s, x) : s \in {t \in shorter : Len(t) = n - 1}, x \in S}

CondLists == SeqsUpTo(Conditions, MaxConds)

Cond(c, s, t) == [category |-> c, status |-> s, type |-> t]

\* condition lists the migration controller puts on the Plan while it runs
ControllerConds ==
    { <<>>,
      <<Cond("Required", "True", "Ready")>>,
      <<Cond("Advisory", "True", "Executing")>>,
      <<Cond("Advisory", "True", "Executing"), Cond("Advisory", "False", "Failed")>>,
      <<Cond("Advisory", "True", "Executing"), Cond("Advisory", "True", "Succeeded")>>,
      <<Cond("Advisory", "True", "Executing"), Cond("Advisory", "True", "Failed")>> }

VmNames == {"vm-a", "vm-b"}
VmLists == {<<"vm-a">>, <<"vm-a", "vm-b">>}
IdOf(name) == IF name = "vm-a" THEN "id-a" ELSE IF name = "vm-b" THEN "id-b" ELSE "id-x"

StepName(i) ==
    CASE i = 1 -> "PreHook"
      [] i = 2 -> "DiskTransfer"
      [] i = 3 -> "PostHook"
      [] OTHER -> "VirtualMachineCreation"

StepErrors == {Absent, "", "boom"}

\* Python truthiness of a step's error attribute
Truthy(e) == e \notin {Absent, ""}

HookRefs == [name : BOOLEAN, namespace : BOOLEAN]

PlanConfigs ==
    [expected_migration_result : {"succeed", "fail"},
     pre_hook : HookRefs,
     post_hook : HookRefs,
     virtual_machines : VmLists,
     expected_step : {"PreHook", "PostHook"},
     check_vms_signals : BOOLEAN]

NoStatus == [present |-> FALSE, vms |-> <<>>]
NoWait == [result |-> "none", error |-> "none", cause |-> "none"]
NoLookup == [ok |-> FALSE, value |-> "none"]
NoFailedSteps == [vm \in {} |-> Absent]
NoApi == [status |-> 200, items |-> <<>>]
NoFind == [ok |-> FALSE, value |-> "none"]

Range(s) == {s[i] : i \in DOMAIN s}

\* -------------------------------------------------------- state poller

\* for cond in _plan.instance.status.conditions: ... return cond_type / "Executing"
RECURSIVE ScanConditions(_, _)
ScanConditions(conds, i) ==
    IF i > Len(conds) THEN EXECUTING
    ELSE IF /\ conds[i].category = "Advisory"
            /\ conds[i].status = STATUS_TRUE
            /\ conds[i].type \in {SUCCEEDED, FAILED}
         THEN conds[i].type
         ELSE ScanConditions(conds, i + 1)

SampleIgnoringStatus(conds) ==
    IF \E i \in DOMAIN conds : conds[i].category = "Advisory" /\ conds[i].type \in Terminal
    THEN (LET i == CHOOSE k \in DOMAIN conds :
                       conds[k].category = "Advisory" /\ conds[k].type \in Terminal
          IN  conds[i].type)
    ELSE EXECUTING

_wait_for_migration_complate(conds) == ScanConditions(conds, 1)

RECURSIVE DropTerminal(_, _)
DropTerminal(conds, i) ==
    IF i > Len(conds) THEN <<>>
    ELSE IF conds[i].type \in Terminal THEN DropTerminal(conds, i + 1)
    ELSE <<conds[i]>> \o DropTerminal(conds, i + 1)

SampleAcknowledgesTerminal(conds) == DropTerminal(conds, 1)

\* the Plan's conditions after _wait_for_migration_complate ran: the loop
\* reads cond["category"], cond["status"] and cond["type"] and assigns to the
\* local cond_type only
ConditionsAfterSample(conds) == conds

AfterSampleKeepsPollingOnFailed(sample) ==
    IF sample = SUCCEEDED THEN "return" ELSE "continue"

LogsStatusOfEverySample(sample, last) == TRUE

\* the loop body logs the sample when it differs from the last one logged
LogsStatus(sample, last) == sample # last

\* what the loop body does with a sample
AfterSample(sample) ==
    IF sample = SUCCEEDED THEN "return"
    ELSE IF sample = FAILED THEN "raise"
    ELSE "continue"

\* the exception class that leaves wait_for_migration_complate; cause is
\* "Failed" (raise inside the loop) or "Timeout" (TimeoutExpiredError)
WaitError(cause) == "MigrationPlanExecError"


\* no _find_migration_for_plan call is under study
FindIdle == api = NoApi /\ findResult = NoFind

\* how a step of migrate_vms continues: next position, raise, or return
Goto(p) == [pc |-> p, outcome |-> "none"]
Raise(e) == [pc |-> "raised", outcome |-> e]
Return == [pc |-> "done", outcome |-> "returned"]

\* ---------------------------------------------------- failed-step lookup

Ok(v) == [ok |-> TRUE, value |-> v]
Err(e) == [ok |-> FALSE, value |-> e]

\* for step in pipeline: if step_error: return step.name
RECURSIVE ScanPipeline(_, _)
ScanPipeline(pipeline, i) ==
    IF i > Len(pipeline) THEN Err("VmPipelineError")
    ELSE IF Truthy(pipeline[i].error) THEN Ok(pipeline[i].name)
    ELSE ScanPipeline(pipeline, i + 1)

RECURSIVE ScanPipelineFromEnd(_, _)
ScanPipelineFromEnd(pipeline, i) ==
    IF i < 1 THEN Err("VmPipelineError")
    ELSE IF Truthy(pipeline[i].error) THEN Ok(pipeline[i].name)
    ELSE ScanPipelineFromEnd(pipeline, i - 1)

FirstErrorStepTakesLast(pipeline) == ScanPipelineFromEnd(pipeline, Len(pipeline))

\* the pipeline part of _get_failed_migration_step, for the matched VM
FirstErrorStep(pipeline) ==
    IF Len(pipeline) = 0 THEN Err("VmPipelineError")
    ELSE ScanPipeline(pipeline, 1)

\* for vm_status in vms_status: match by name or id, then the pipeline
RECURSIVE ScanVms(_, _, _)
ScanVms(vms, vm_name, i) ==
    IF i > Len(vms) THEN Err("VmNotFoundError")
    ELSE IF vm_name \notin {vms[i].id, vms[i].name} THEN ScanVms(vms, vm_name, i + 1)
    ELSE FirstErrorStep(vms[i].pipeline)

\* a lookup that goes on to scan an empty status.vms
LookupScansEmptyVms(found, status, vm_name) ==
    IF ~found THEN Err("MigrationNotFoundError")
    ELSE IF ~status.present THEN Err("MigrationStatusError")
    ELSE ScanVms(status.vms, vm_name, 1)

\* _get_failed_migration_step(plan, vm_name); found: _find_migration_for_plan
\* returned a Migration
_get_failed_migration_step(found, status, vm_name) ==
    IF ~found THEN Err("MigrationNotFoundError")
    ELSE IF ~status.present THEN Err("MigrationStatusError")
    ELSE IF Len(status.vms) = 0 THEN Err("MigrationStatusError")
    ELSE ScanVms(status.vms, vm_name, 1)

\* a collection that hands the kind of a lookup error on to migrate_vms
CollectKeepsErrorKind(found, status, vm_names) ==
    [vm \in Range(vm_names) |-> _get_failed_migration_step(found, status, vm).value]

\* failed step per VM name; a lookup error is logged and becomes None
_get_all_vms_failed_steps(found, status, vm_names) ==
    [vm \in Range(vm_names) |->
        LET r == _get_failed_migration_step(found, status, vm)
        IN  IF r.ok THEN r.value ELSE Absent]

\* ------------------------------------------------ hook failure classifier

\* utilities/hooks.py: every VM must report the same failed step
validate_all_vms_same_step(fs) ==
    IF Cardinality({fs[vm] : vm \in DOMAIN fs}) > 1
    THEN Err("InconsistentFailureStep")
    ELSE Ok(CHOOSE s \in {fs[vm] : vm \in DOMAIN fs} : TRUE)

\* utilities/hooks.py: the common step must be the one the scenario expects
validate_expected_hook_failure(actual_failed_step, plan_config) ==
    IF actual_failed_step = plan_config.expected_step
    THEN Ok(actual_failed_step)
    ELSE Err("UnexpectedFailureStep")

HasHooksWheneverFailExpected(p) == p.expected_migration_result = "fail"

\* has_hooks = pre_hook_name is not None or after_hook_name is not None
HasHooks(p) == p.pre_hook.name \/ p.post_hook.name

HookFailureFlowTrustsFirstVm(p, fs) ==
    LET actual == fs[p.virtual_machines[1]]
        exp == validate_expected_hook_failure(actual, p)
    IN  IF ~exp.ok THEN Raise(exp.value)
        ELSE IF actual = "PostHook" THEN Goto("check_vms")
        ELSE Return

HookFailureFlowVerifiesAnyStep(p, fs) ==
    LET same == validate_all_vms_same_step(fs)
    IN  IF ~same.ok THEN Raise(same.value)
        ELSE LET exp == validate_expected_hook_failure(same.value, p)
             IN  IF ~exp.ok THEN Raise(exp.value) ELSE Goto("check_vms")

\* the hooks-specific validation of migrate_vms and what follows it
HookFailureFlow(p, fs) ==
    LET same == validate_all_vms_same_step(fs)
    IN  IF ~same.ok THEN Raise(same.value)
        ELSE LET exp == validate_expected_hook_failure(same.value, p)
             IN  IF ~exp.ok THEN Raise(exp.value)
                 ELSE IF same.value = "PostHook" THEN Goto("check_vms")
                 ELSE Return

\* ------------------------------------------------------------ migrate_vms

HookRefsChecksPreHookOnly(p) ==
    p.pre_hook.name = p.pre_hook.namespace

\* both "is not None" tests agree, for the pre-hook and for the post-hook
HookRefsConsistent(p) ==
    /\ p.pre_hook.name = p.pre_hook.namespace
    /\ p.post_hook.name = p.post_hook.namespace

\* migrate_vms around its call of wait_for_migration_complate
AfterWait(p, w) ==
    IF p.expected_migration_result = "fail"
    THEN IF w.result = "returned" THEN Raise("AssertionError")
         ELSE IF w.error = "MigrationPlanExecError" THEN Goto("classify")
         ELSE Raise(w.error)
    ELSE IF w.result = "returned" THEN Goto("after_wait")
         ELSE Raise(w.error)

PlanWaitNextSwallowsTimeout(ready) == Goto("create_migration")

\* plan.wait_for_condition(READY, TRUE, timeout=360) and its except clause
PlanWaitNext(ready) ==
    IF ready THEN Goto("create_migration") ELSE Raise("TimeoutExpiredError")


\* ---------------------------------------------------------- plan submission

\* one VM of the Forklift inventory
InvVm(name, id) == [name |-> name, id |-> id]

\* self.vms of the ForkliftInventory: complete, without vm-b, and with two
\* VMs that share the name vm-a
InventoryListings ==
    {<<InvVm("vm-a", IdOf("vm-a")), InvVm("vm-b", IdOf("vm-b"))>>,
     <<InvVm("vm-a", IdOf("vm-a"))>>,
     <<InvVm("vm-a", IdOf("vm-a")), InvVm("vm-a", "id-a2"), InvVm("vm-b", IdOf("vm-b"))>>}

\* source_provider_inventory as migrate_vms receives it; given = FALSE is the
\* default None, vms is what the provider's inventory holds either way
Inventories == [given : BOOLEAN, vms : InventoryListings]

DefaultInventory ==
    [given |-> TRUE,
     vms |-> <<InvVm("vm-a", IdOf("vm-a")), InvVm("vm-b", IdOf("vm-b"))>>]

\* ForkliftInventory.get_vm(name): the first VM of that name, fetched by id
RECURSIVE get_vm(_, _, _)
get_vm(vms, name, i) ==
    IF i > Len(vms) THEN Err("ValueError")
    ELSE IF vms[i].name = name THEN Ok([id |-> vms[i].id, name |-> vms[i].name])
    ELSE get_vm(vms, name, i + 1)

\* vm["id"] of every VM of the plan dict before migrate_vms ran
NoIds(p) == [vm \in Range(p.virtual_machines) |-> Absent]

\* for vm in plan["virtual_machines"]: vm["id"] = inventory.get_vm(name)["id"]
RECURSIVE ResolveIdsFrom(_, _, _, _)
ResolveIdsFrom(vms, vm_names, i, ids) ==
    IF i > Len(vm_names) THEN Ok(ids)
    ELSE LET vm_data == get_vm(vms, vm_names[i], 1)
         IN  IF ~vm_data.ok THEN [ok |-> FALSE, value |-> vm_data.value, ids |-> ids]
             ELSE ResolveIdsFrom(vms, vm_names, i + 1,
                                 [ids EXCEPT ![vm_names[i]] = vm_data.value.id])

\* the head of migrate_vms: ids are looked up only when an inventory is given
PopulateVmIds(inv, p) ==
    IF inv.given THEN ResolveIdsFrom(inv.vms, p.virtual_machines, 1, NoIds(p))
    ELSE Ok(NoIds(p))

\* utilities/migration_utils.py, prepare_migration_for_tests: the VM list of
\* the Plan, one entry per VM of the plan dict, carrying the VM's id
VirtualMachinesList(vm_names, ids) ==
    [i \in 1..Len(vm_names) |-> [name |-> vm_names[i], id |-> ids[vm_names[i]]]]

\* copyoffload and pvc_name_template arguments of run_migration
RunKwargs == [copyoffload : BOOLEAN, pvc_name_template : {Absent, "{{.VmName}}-disk"}]

DefaultKwargs == [copyoffload |-> FALSE, pvc_name_template |-> Absent]

\* plan_kwargs["pvc_name_template"] as the Plan is created with it
PlanPvcNameTemplate(kwargs) ==
    IF kwargs.copyoffload THEN "pvc" ELSE kwargs.pvc_name_template

NoPlanSpec == [vms |-> <<>>, pvc_name_template |-> Absent]

AfterPlanReadySkipsSecret(copyoffload) == Goto("create_migration")

\* run_migration between the Ready wait and the creation of the Migration
AfterPlanReady(copyoffload) ==
    IF copyoffload THEN Goto("wait_secret") ELSE Goto("create_migration")

\* run_migration after plan.wait_for_condition ended
AfterPlanWait(ready, copyoffload) ==
    LET w == PlanWaitNext(ready)
    IN  IF w.pc = "create_migration" THEN AfterPlanReady(copyoffload) ELSE w

\* utilities/copyoffload_migration.py, wait_for_plan_secret: returns once the
\* plan-scoped secret exists, gives up when its own timeout expires
wait_for_plan_secret(present) ==
    IF present THEN Goto("create_migration") ELSE Raise("TimeoutExpiredError")

\* no plan submission is under study: inventory handed over, no copy-offload
SubmitIdle ==
    /\ inventory = DefaultInventory
    /\ vm_ids = NoIds(plan)
    /\ run_kwargs = DefaultKwargs
    /\ planSpec = NoPlanSpec
    /\ planSecret = FALSE
    /\ secretObserved = FALSE

\* ------------------------------------------------ post-migration verifier
\* src/utilities/post_migration.py.  pytest_check records a failed
\* check.equal and goes on; an exception leaves the function.

RWO == "ReadWriteOnce"
RWX == "ReadWriteMany"

\* Python None where the other values are records
None == [none |-> TRUE]

\* result of a check function: the failures pytest_check recorded, in order,
\* and the exception that ended the function, "none" if it returned
Verdict(failures, error) == [failures |-> failures, error |-> error]

NoVerdict == Verdict(<<>>, "none")

\* map_item.destination of a network map entry
NetDestinations ==
    {[type |-> "pod", name |-> Absent], [type |-> "multus", name |-> "mtv/net-b"]}

\* map_item.source of a provider that identifies networks by id or name
UntypedSources ==
    {[type |-> Absent, id |-> "network-1", name |-> <<>>],
     [type |-> Absent, id |-> Absent, name |-> <<"VM Network">>],
     [type |-> Absent, id |-> "network-2", name |-> <<>>]}

\* map_item.source of an OpenShift source: a network type, or a name
\* "namespace/name" kept as its parts
TypedSources ==
    {[type |-> "pod", id |-> Absent, name |-> <<>>],
     [type |-> "multus", id |-> Absent, name |-> <<"default", "net-1">>]}

\* source_vm_nic["network"]: a dict for the first kind of provider, a string
\* for an OpenShift source
UntypedNetworks ==
    {[id |-> "network-1", name |-> "VM Network"], [id |-> "network-9", name |-> "Lab"]}

TypedNetworks == {"pod", "net-1", "net-9"}

Macs == {"00:00:00:00:00:01", "00:00:00:00:00:02"}

\* the inputs of check_network for one kind of source provider
NetworkArgsOf(sources, networks) ==
    [network_map : SeqsUpTo([source : sources, destination : NetDestinations], 2),
     source_nics : SeqsUpTo([macAddress : Macs, network : networks], 2) \ {<<>>},
     destination_nics : SeqsUpTo([macAddress : Macs, network : {"pod", "mtv/net-b"}], 2)]

NetworkArgs ==
    NetworkArgsOf(UntypedSources, UntypedNetworks) \cup NetworkArgsOf(TypedSources, TypedNetworks)

\* whether one map entry is the entry of the NIC's network
MapItemMatches(map_item, source_vm_nic) ==
    IF map_item.source.type # Absent
    THEN \/ map_item.source.type = source_vm_nic.network
         \/ /\ Len(map_item.source.name) > 0
            /\ map_item.source.name[2] = source_vm_nic.network
    ELSE \/ /\ map_item.source.id # Absent
            /\ map_item.source.id = source_vm_nic.network.id
         \/ /\ Len(map_item.source.name) > 0
            /\ map_item.source.name[1] = source_vm_nic.network.name

\* get_destination(map_resource, source_vm_nic): the destination of the first
\* matching entry, {"name": "pod"} for the pod network, None without a match
RECURSIVE ScanNetworkMap(_, _, _)
ScanNetworkMap(map, source_vm_nic, i) ==
    IF i > Len(map) THEN None
    ELSE IF MapItemMatches(map[i], source_vm_nic)
         THEN IF map[i].destination.type = "pod" THEN [name |-> "pod"]
              ELSE [name |-> map[i].destination.name]
         ELSE ScanNetworkMap(map, source_vm_nic, i + 1)

get_destination(map, source_vm_nic) == ScanNetworkMap(map, source_vm_nic, 1)

\* get_nic_by_mac(nics, mac_address): element 0 of the list of matches
RECURSIVE ScanNics(_, _, _)
ScanNics(nics, mac_address, i) ==
    IF i > Len(nics) THEN Err("IndexError")
    ELSE IF nics[i].macAddress = mac_address THEN Ok(nics[i])
    ELSE ScanNics(nics, mac_address, i + 1)

get_nic_by_mac(nics, mac_address) == ScanNics(nics, mac_address, 1)

\* the body of check_network's loop from NIC i on
RECURSIVE CheckNetworkFrom(_, _, _, _, _)
CheckNetworkFrom(map, source_nics, destination_nics, i, failures) ==
    IF i > Len(source_nics) THEN Verdict(failures, "none")
    ELSE LET destination == get_destination(map, source_nics[i])
             destination_vm_nic == get_nic_by_mac(destination_nics, source_nics[i].macAddress)
         IN  IF destination = None THEN Verdict(failures, "TypeError")
             ELSE IF ~destination_vm_nic.ok THEN Verdict(failures, destination_vm_nic.value)
             ELSE IF destination_vm_nic.value.network = destination.name
                  THEN CheckNetworkFrom(map, source_nics, destination_nics, i + 1, failures)
                  ELSE CheckNetworkFrom(map, source_nics, destination_nics, i + 1,
                                        Append(failures, [check |-> "network", nic |-> i]))

check_network(source_nics, destination_nics, network_migration_map) ==
    CheckNetworkFrom(network_migration_map, source_nics, destination_nics, 1, <<>>)

CephRbd == "ocs-storagecluster-ceph-rbd"

\* disk["storage"]["name"] of the source VM's disks
SourceStorages == {"ds-1", "ds-2"}

\* destination_disk["storage"]: storage class and access_mode list
DestinationDisks ==
    [name : {CephRbd, "nfs"}, access_mode : {<<RWO>>, <<RWX>>}]

\* an entry of storage_map_resource.instance.spec.map
StorageMappings ==
    [source_name : SourceStorages, accessMode : {Absent, RWO, RWX}]

\* the inputs of check_storage; storage_class is config["storage_class"]
StorageArgs ==
    [source_disks : SeqsUpTo(SourceStorages, 2) \ {<<>>},
     destination_disks : SeqsUpTo(DestinationDisks, 2),
     storage_map : SeqsUpTo(StorageMappings, 2),
     storage_class : {CephRbd, "nfs"}]

\* the access mode check_storage demands under one mapping
ExpectedAccessMode(mapping) == IF mapping.accessMode # Absent THEN RWO ELSE RWX

\* for mapping in storage_map_resource.instance.spec.map, from mapping k on
RECURSIVE CheckAccessModesFrom(_, _, _, _, _, _)
CheckAccessModesFrom(source_disks, disk, j, storage_map, k, failures) ==
    IF k > Len(storage_map) THEN failures
    ELSE IF storage_map[k].source_name \notin Range(source_disks)
         THEN CheckAccessModesFrom(source_disks, disk, j, storage_map, k + 1, failures)
    ELSE IF disk.access_mode[1] = ExpectedAccessMode(storage_map[k])
         THEN CheckAccessModesFrom(source_disks, disk, j, storage_map, k + 1, failures)
    ELSE CheckAccessModesFrom(source_disks, disk, j, storage_map, k + 1,
             Append(failures, [check |-> "access mode", disk |-> j, mapping |-> k]))

\* for destination_disk in destination_disks, from disk j on
RECURSIVE CheckDisksFrom(_, _, _, _, _, _)
CheckDisksFrom(source_disks, destination_disks, storage_map, storage_class, j, failures) ==
    IF j > Len(destination_disks) THEN failures
    ELSE LET disk == destination_disks[j]
             named == IF disk.name = storage_class THEN failures
                      ELSE Append(failures, [check |-> "storage class", disk |-> j])
             moded == IF disk.name = CephRbd
                      THEN CheckAccessModesFrom(source_disks, disk, j, storage_map, 1, named)
                      ELSE named
         IN  CheckDisksFrom(source_disks, destination_disks, storage_map, storage_class,
                            j + 1, moded)

check_storage(source_disks, destination_disks, storage_map, storage_class) ==
    LET counted == IF Len(destination_disks) = Len(source_disks) THEN <<>>
                   ELSE <<[check |-> "disks count"]>>
    IN  Verdict(CheckDisksFrom(source_disks, destination_disks, storage_map,
                               storage_class, 1, counted), "none")

\* a comparison of the numbers of snapshots only
CheckSnapshotCounts(vm_snapshots_before, vm_snapshots_after) ==
    IF Len(vm_snapshots_before) = Len(vm_snapshots_after) THEN NoVerdict
    ELSE Verdict(<<[check |-> "source_vm_snapshots"]>>, "none")

\* check_source_vm_snapshots(vm_snapshots_before, vm_snapshots_after)
check_source_vm_snapshots(vm_snapshots_before, vm_snapshots_after) ==
    IF vm_snapshots_before = vm_snapshots_after THEN NoVerdict
    ELSE Verdict(<<[check |-> "source_vm_snapshots"]>>, "none")

\* check_cpu(source_vm, destination_vm)
check_cpu(source_cpu, destination_cpu) ==
    Verdict((IF source_cpu.num_cores = destination_cpu.num_cores THEN <<>>
             ELSE <<[check |-> "cpu cores"]>>)
            \o (IF source_cpu.num_sockets = destination_cpu.num_sockets THEN <<>>
                ELSE <<[check |-> "cpu sockets"]>>), "none")

\* check_memory(source_vm, destination_vm)
check_memory(source_mb, destination_mb) ==
    IF source_mb = destination_mb THEN NoVerdict ELSE Verdict(<<[check |-> "memory"]>>, "none")

\* check_vms_power_state(source_vm, destination_vm, source_power_before_migration)
check_vms_power_state(source_power, destination_power, source_power_before_migration) ==
    Verdict((IF source_power = "off" THEN <<>> ELSE <<[check |-> "source power"]>>)
            \o (IF source_power_before_migration # Absent
                   /\ destination_power # source_power_before_migration
                THEN <<[check |-> "destination power"]>> ELSE <<>>), "none")

\* ------------------------------------------------------------- check_vms

\* the arguments of check_vms that steer which checks run
VerifyConfigs ==
    [warm_migration : BOOLEAN,
     pre_copies_before_cut_over : {0, 2},
     provider_type : {"vsphere", "ovirt"},
     source_provider_host : BOOLEAN,
     virtual_machines : VmLists]

NoVerifyConfig ==
    [warm_migration |-> FALSE, pre_copies_before_cut_over |-> 0, provider_type |-> "vsphere",
     source_provider_host |-> FALSE, virtual_machines |-> <<>>]

\* the network map handed to check_vms
VerifyNetworkMap ==
    <<[source |-> [type |-> Absent, id |-> "network-1", name |-> <<>>],
       destination |-> [type |-> "pod", name |-> Absent]]>>

\* the entry of plan["virtual_machines"] under verification together with
\* source_vm["snapshots_data"]; the conftest plans fixture stores
\* snapshots_before_migration for every source but OVA
VmReadings ==
    [has_snapshots_before : BOOLEAN,
     snapshots_before_migration : {<<"snap-1">>},
     guest_agent : BOOLEAN,
     snapshots_data : {<<"snap-1">>, <<"snap-2">>, <<"snap-1", "snap-2">>}]

NoReading ==
    [has_snapshots_before |-> FALSE, snapshots_before_migration |-> <<>>,
     guest_agent |-> FALSE, snapshots_data |-> <<>>]

\* the NICs of source_vm and destination_vm in check_vms
SourceNicsOf(network) == <<[macAddress |-> "00:00:00:00:00:01", network |-> network]>>
DestinationNicsOf(mac) == <<[macAddress |-> mac, network |-> "pod"]>>

NoCursor == [index |-> 0, reading |-> NoReading]
NoLog == [ran |-> <<>>, failures |-> <<>>, verified |-> 0]

\* vmware_provider(provider_data), rhv_provider(provider_data)
vmware_provider(cfg) == cfg.provider_type = "vsphere"
rhv_provider(cfg) == cfg.provider_type = "ovirt"

\* the condition of line 168
DataIntegrityApplies(cfg) == cfg.warm_migration /\ cfg.pre_copies_before_cut_over # 0

\* the condition of line 179
SnapshotCheckApplies(cfg, r) == r.has_snapshots_before /\ vmware_provider(cfg)

\* check_data_integrity runs a pod through oc and parses its log: it passes,
\* records a mismatch, or ends with the subprocess error
DataIntegrityOutcomes ==
    {NoVerdict,
     Verdict(<<[check |-> "data integrity"]>>, "none"),
     Verdict(<<>>, "CalledProcessError")}

\* one soft assertion on a value read from outside
SoftCheck(ok, name) == IF ok THEN NoVerdict ELSE Verdict(<<[check |-> name]>>, "none")

\* no check function is under study
VerifyIdle ==
    /\ checkArgs = None
    /\ checkResult = NoVerdict
    /\ vcfg = NoVerifyConfig
    /\ vcur = NoCursor
    /\ vlog = NoLog

\* ----------------------------------------------------- gen_network_map_list

\* source networks vms_networks_mappings can report, by id
SourceNetworkIds == {"network-1", "network-2", "network-3"}

\* networks a call of vms_networks_mappings returns at most
MaxNetworks == 3

\* what vms_networks_mappings(vms=vms) returns: source networks, in order
SourceNetworkLists ==
    UNION {[1..n -> SourceNetworkIds] : n \in 0..MaxNetworks}

MultusNames == {"", "mybridge"}

NetMapArgs ==
    [networks : SourceNetworkLists,
     target_namespace : {"mtv-tests"},
     multus_network_name : MultusNames,
     pod_only : BOOLEAN]

NoNetArgs ==
    [networks |-> <<>>, target_namespace |-> "mtv-tests", multus_network_name |-> "",
     pod_only |-> FALSE]

NoNetworkMap == [returned |-> FALSE, list |-> <<>>]

_destination_pod == [type |-> "pod"]

_destination_multus(multus_network_name, target_namespace) ==
    [type |-> "multus", name |-> multus_network_name, namespace |-> target_namespace]

DestinationBySource(networks, index, multus_network_name, target_namespace, pod_only) ==
    IF pod_only \/ networks[index + 1] = "network-1"
    THEN _destination_pod
    ELSE _destination_multus(multus_network_name, target_namespace)

\* the destination the loop body picks for the network at index (from 0)
DestinationAt(networks, index, multus_network_name, target_namespace, pod_only) ==
    IF pod_only THEN _destination_pod
    ELSE IF index = 0 THEN _destination_pod
    ELSE _destination_multus(multus_network_name, target_namespace)

\* gen_network_map_list(source_provider_inventory, target_namespace, vms,
\*                      multus_network_name, pod_only)
gen_network_map_list(networks, target_namespace, multus_network_name, pod_only) ==
    [i \in 1..Len(networks) |->
        [destination |-> DestinationAt(networks, i - 1, multus_network_name,
                                       target_namespace, pod_only),
         source |-> networks[i]]]

\* gen_network_map_list is not under study
NetMapIdle ==
    /\ netArgs = NoNetArgs
    /\ network_map_list = NoNetworkMap

\* ----------------------------------------------------- VMWareProvider.vms

\* VMs the container view lists at most
MaxListedVms == 3

\* vm.name of the VMs of the vCenter, in the order the container view lists them
VsphereVmNames == <<"mtv-rhel8", "mtv-win2019", "other-vm", "mtv-rhel9">>

\* what the health checks read of a VM: whether vm.datastore is non-empty,
\* state and error message of the datastore browser's search for the VMX
\* file, and vm.summary.runtime.connectionState
VmHealths ==
    {[datastore |-> TRUE, search |-> [state |-> "success", msg |-> ""],
      connectionState |-> "connected"],
     [datastore |-> FALSE, search |-> [state |-> "success", msg |-> ""],
      connectionState |-> "connected"],
     [datastore |-> TRUE, search |-> [state |-> "error", msg |-> "vmx was not found"],
      connectionState |-> "connected"],
     [datastore |-> TRUE, search |-> [state |-> "error", msg |-> "permission denied"],
      connectionState |-> "connected"],
     [datastore |-> TRUE, search |-> [state |-> "success", msg |-> ""],
      connectionState |-> "inaccessible"],
     [datastore |-> TRUE, search |-> [state |-> "error", msg |-> "vmx was not found"],
      connectionState |-> "inaccessible"]}

\* container_view.view
VsphereInventories ==
    UNION {{[i \in 1..n |-> [name |-> VsphereVmNames[i], health |-> h[i]]] :
               h \in [1..n -> VmHealths]} : n \in 0..MaxListedVms}

\* query arguments of vms; "" is the default
Queries == {"", "mtv", "RHEL", "centos"}

\* pat.search(vm.name) with pat = re.compile(query, re.IGNORECASE): the
\* query occurs in the name, letter case ignored
PatSearch(query, name) ==
    \/ query = "mtv" /\ name \in {"mtv-rhel8", "mtv-win2019", "mtv-rhel9"}
    \/ query = "RHEL" /\ name \in {"mtv-rhel8", "mtv-rhel9"}

\* self.api: never connected or disconnected, a live session, or a session
\* the vCenter no longer accepts
SessionStates == {"none", "live", "stale"}

VmsReturn(target_vms) == [ok |-> TRUE, error |-> "none", vms |-> target_vms]
VmsRaise(error) == [ok |-> FALSE, error |-> error, vms |-> <<>>]

\* VMWareProvider.test: RetrieveContent() answers on a live session only;
\* every exception is swallowed
test(session) == session = "live"

\* VMWareProvider.connect: SmartConnect replaces self.api, or raises and
\* leaves it as it was
connect(session, reachable) ==
    IF reachable THEN [ok |-> TRUE, session |-> "live"]
    ELSE [ok |-> FALSE, session |-> session]

EnsureSessionWithoutProbe(session, reachable) ==
    [ok |-> TRUE, session |-> session, probe |-> TRUE, reconnected |-> FALSE]

\* the first statement of vms: probe the session, connect again if the
\* probe failed
EnsureSession(session, reachable) ==
    IF ~test(session)
    THEN LET c == connect(session, reachable)
         IN  [ok |-> c.ok, session |-> c.session, probe |-> FALSE, reconnected |-> TRUE]
    ELSE [ok |-> TRUE, session |-> session, probe |-> TRUE, reconnected |-> FALSE]

is_vm_missing_vmx_file(vm) ==
    IF ~vm.health.datastore THEN TRUE
    ELSE IF vm.health.search.state = "error"
         THEN vm.health.search.msg = "vmx was not found"
         ELSE FALSE

is_vm_with_bad_datastore(vm) ==
    vm.health.connectionState = "inaccessible"

\* the exception raise VmMissingVmxError(vms=...) ends with: the class takes
\* its argument as vm, so the call of the constructor fails
RaiseVmMissingVmxError == "TypeError"

\* the same for raise VmBadDatastoreError(vms=...)
RaiseVmBadDatastoreError == "TypeError"

VmsFiltersUnhealthy(all_vms, query) ==
    IF Len(all_vms) = 0 THEN VmsRaise("NoVmsFoundError")
    ELSE LET target_vms == IF query # ""
                           THEN SelectSeq(all_vms, LAMBDA vm : PatSearch(query, vm.name))
                           ELSE all_vms
         IN  IF Len(target_vms) = 0 THEN VmsRaise("NoVmsFoundError")
             ELSE VmsReturn(SelectSeq(target_vms,
                                LAMBDA vm : /\ ~is_vm_missing_vmx_file(vm)
                                            /\ ~is_vm_with_bad_datastore(vm)))

\* vms(query) from the container view on: all_vms, the query filter, the two
\* health checks over the filtered list
vms(all_vms, query) ==
    IF Len(all_vms) = 0 THEN VmsRaise("NoVmsFoundError")
    ELSE LET target_vms == IF query # ""
                           THEN SelectSeq(all_vms, LAMBDA vm : PatSearch(query, vm.name))
                           ELSE all_vms
             vms_with_missing_vmx == SelectSeq(target_vms, is_vm_missing_vmx_file)
             vms_with_bad_datastore == SelectSeq(target_vms, is_vm_with_bad_datastore)
         IN  IF Len(target_vms) = 0 THEN VmsRaise("NoVmsFoundError")
             ELSE IF Len(vms_with_missing_vmx) > 0 THEN VmsRaise(RaiseVmMissingVmxError)
             ELSE IF Len(vms_with_bad_datastore) > 0 THEN VmsRaise(RaiseVmBadDatastoreError)
             ELSE VmsReturn(target_vms)

NoVsphere == [session |-> "none", all_vms |-> <<>>]

NoVmsCall ==
    [called |-> FALSE, query |-> "", session_before |-> "none", probe |-> FALSE,
     reconnected |-> FALSE, enumerated_on |-> "none", result |-> VmsRaise("none")]

\* the vSphere adapter is not under study
AdapterIdle ==
    /\ vsphere = NoVsphere
    /\ vmsCall = NoVmsCall

\* ------------------------------------------------ the source_provider fixture

\* an entry of _teardown: None, a resource whose clean_up returns, or one
\* whose clean_up raises
TeardownEntries == {"None", "cleans", "raises"}

\* what a session gives the fixture: whether connect() succeeds, whether the
\* provider then answers the probe, the resources to clean up and how the
\* tests of the session end
ScopeInputs ==
    [connect_ok : BOOLEAN,
     test_ok : BOOLEAN,
     _teardown : SeqsUpTo(TeardownEntries, 2),
     tests : {"passed", "failed"}]

ScopeOf(input) ==
    [input |-> input, connected |-> FALSE, disconnected |-> FALSE, cleaned |-> 0,
     next |-> 1]

NoScope ==
    ScopeOf([connect_ok |-> FALSE, test_ok |-> FALSE, _teardown |-> <<>>,
             tests |-> "passed"])

\* Provider.__exit__(exc_type, exc_val, exc_tb): return
Provider__exit__(sc) == sc

\* the source_provider fixture is not under study
ScopeIdle ==
    scope = NoScope

\* ---------------------------------------------------------- run_ceph_cleanup

\* iterations of the while loop of run_ceph_cleanup that are followed
MaxIterations == 2

\* lines "rbd ls <pool>" can print
RbdImageNames == {"csi-snap-1", "csi-vol-1", "csi-vol-snapshot-2", "image-3"}

\* "snap" in line
HasSnap(line) == line \in {"csi-snap-1", "csi-vol-snapshot-2"}

\* "vol" in line
HasVol(line) == line \in {"csi-vol-1", "csi-vol-snapshot-2"}

\* pool["stats"]["percent_used"] as "ceph df -f json" reports it, 0 also
\* standing for a pool the report does not list
PercentUsed == {0, 59, 60, 90}

\* the pool: its usage, the full ratio of the cluster in percent, the images
\* of the pool, the images whose snapshots were purged and the trash; with
\* them the kinds of changing commands run_ceph_cleanup has executed, how its
\* last iteration ended and how many iterations it has made
CephPools ==
    [percent_used : PercentUsed,
     full_ratio : {85},
     images : SUBSET RbdImageNames,
     purged : {{}},
     trash : SUBSET {"trash-1"},
     changed : {{}},
     last : {"none"},
     iterations : {0}]

NoCeph ==
    [percent_used |-> 0, full_ratio |-> 85, images |-> {}, purged |-> {}, trash |-> {},
     changed |-> {}, last |-> "none", iterations |-> 0]

\* the commands of an iteration at which execute can raise ExecOnPodError
ExecFaults == {"never", "ceph df", "rbd ls", "rbd trash list"}

\* get_ceph_pool_percent_used(ceph_tools_pod, pool_name)
get_ceph_pool_percent_used(c) == c.percent_used

CephIterationObservesOnly(c, fault) ==
    [c EXCEPT !.last = IF fault = "ceph df" THEN "failed" ELSE "slept",
              !.iterations = @ + 1]

\* one iteration of the while loop: below 60 it sleeps; otherwise it raises
\* the full ratio, purges the snapshots of the images named *snap*, removes
\* the other images named *vol* and empties the trash; ExecOnPodError ends
\* the iteration where it is raised
CephIteration(c, fault) ==
    LET snaps == {line \in c.images : HasSnap(line)}
        vols == {line \in c.images : ~HasSnap(line) /\ HasVol(line)}
        raised == [c EXCEPT !.full_ratio = 90,
                            !.changed = @ \cup {"set-full-ratio"}]
        removed == [raised EXCEPT
                        !.purged = @ \cup snaps,
                        !.images = @ \ vols,
                        !.changed = @ \cup (IF snaps = {} THEN {} ELSE {"snap purge"})
                                      \cup (IF vols = {} THEN {} ELSE {"rm"})]
        emptied == [removed EXCEPT
                        !.trash = {},
                        !.changed = @ \cup (IF c.trash = {} THEN {} ELSE {"trash remove"})]
        after == IF fault = "ceph df" THEN [c EXCEPT !.last = "failed"]
                 ELSE IF get_ceph_pool_percent_used(c) < 60 THEN [c EXCEPT !.last = "slept"]
                 ELSE IF fault = "rbd ls" THEN [raised EXCEPT !.last = "failed"]
                 ELSE IF fault = "rbd trash list" THEN [removed EXCEPT !.last = "failed"]
                 ELSE [emptied EXCEPT !.last = "cleaned"]
    IN  [after EXCEPT !.iterations = @ + 1]

\* the finally clause: "ceph osd set-full-ratio 0.85"
CephFinally(c) ==
    [c EXCEPT !.full_ratio = 85, !.changed = @ \cup {"set-full-ratio"}, !.last = "left"]

\* run_ceph_cleanup is not under study
CephIdle ==
    ceph = NoCeph

\* ----------------------------------------------------------- session_teardown

\* a Migration of session_store["teardown"]: whether its Executing condition
\* is True, and what goes wrong with it: nothing, reading its instance
\* raises, the patch of spec.cancel raises, or the wait for CANCELED times out
SessionMigrations ==
    [executing : BOOLEAN, fault : {"none", "read raises", "patch raises", "timeout"}]

\* a Plan of session_store["teardown"] and what goes wrong with it: nothing,
\* the patch of spec.archived raises, or the wait for ARCHIVED times out
SessionPlans == [fault : {"none", "patch raises", "timeout"}]

SessionStores ==
    [migrations : SeqsUpTo(SessionMigrations, 2),
     plans : SeqsUpTo(SessionPlans, 2),
     delete_raises : BOOLEAN]

\* what session_teardown did: the calls it made and ended, the resources it
\* patched or deleted, in order, and whether an exception is on its way out
SessionOf(store) ==
    [store |-> store, calls |-> <<>>, events |-> <<>>, raising |-> FALSE]

NoSession ==
    SessionOf([migrations |-> <<>>, plans |-> <<>>, delete_raises |-> FALSE])

Event(op, on) == [op |-> op, on |-> on]

\* the first loop of cancel_migrations: every Migration's conditions are read
ReadsAll(migrations) ==
    \A i \in DOMAIN migrations : migrations[i].fault # "read raises"

\* the second loop of cancel_migrations, from the i-th Migration on
RECURSIVE CancelFrom(_, _, _)
CancelFrom(migrations, i, events) ==
    IF i > Len(migrations) THEN [ok |-> TRUE, events |-> events]
    ELSE IF ~migrations[i].executing THEN CancelFrom(migrations, i + 1, events)
    ELSE IF migrations[i].fault = "patch raises" THEN [ok |-> FALSE, events |-> events]
    ELSE CancelFrom(migrations, i + 1, Append(events, Event("cancel", i)))

\* cancel_migrations(migrations, ...): the Migrations patched, and whether
\* the call returned
cancel_migrations(migrations) ==
    IF ~ReadsAll(migrations) THEN [ok |-> FALSE, events |-> <<>>]
    ELSE CancelFrom(migrations, 1, <<>>)

\* the loop of archive_plans, from the i-th Plan on
RECURSIVE ArchiveFrom(_, _, _)
ArchiveFrom(plans, i, events) ==
    IF i > Len(plans) THEN [ok |-> TRUE, events |-> events]
    ELSE IF plans[i].fault = "patch raises" THEN [ok |-> FALSE, events |-> events]
    ELSE ArchiveFrom(plans, i + 1, Append(events, Event("archive", i)))

\* archive_plans(plans, ...)
archive_plans(plans) == ArchiveFrom(plans, 1, <<>>)

\* teardown_resources(...): the Migrations, then the Plans, are deleted
teardown_resources(store) ==
    [ok |-> ~store.delete_raises,
     events |-> [i \in 1..Len(store.migrations) |-> Event("delete migration", i)]
                \o (IF store.delete_raises THEN <<>>
                    ELSE [i \in 1..Len(store.plans) |-> Event("delete plan", i)])]

AfterTryStepWithoutFinally(ok, nxt) ==
    IF ok THEN nxt ELSE "teardown_raised"

\* where a statement of the try block of session_teardown leads: to the next
\* statement, or, when it raised, to the finally clause
AfterTryStep(ok, nxt) ==
    IF ok THEN nxt ELSE "teardown_finally"

\* session_teardown is not under study
SessionIdle ==
    teardown = NoSession

\* no adapter, fixture or session helper is under study
SideIdle ==
    /\ NetMapIdle
    /\ AdapterIdle
    /\ ScopeIdle
    /\ CephIdle
    /\ SessionIdle

\* ------------------------------------------------------------ cluster side

FreshPipeline == [i \in 1..MaxPipeline |-> [name |-> StepName(i), error |-> Absent]]

FreshStatus(vm_names) ==
    [present |-> TRUE,
     vms |-> [i \in 1..Len(vm_names) |->
                [id |-> IdOf(vm_names[i]), name |-> vm_names[i], pipeline |-> FreshPipeline]]]

HasError(pipeline) == \E k \in DOMAIN pipeline : Truthy(pipeline[k].error)

\* -------------------------------------------------------------- processes

Init ==
    /\ pc = "start"
    /\ plan \in PlanConfigs
    /\ outcome = "none"
    /\ planCreated = FALSE
    /\ planReady = FALSE
    /\ readyObserved = FALSE
    /\ migrationCreated = FALSE
    /\ planConds = <<>>
    /\ migStatus = NoStatus
    /\ sampled = <<>>
    /\ last_status = ""
    /\ statusLog = <<>>
    /\ SideIdle
    /\ wait = NoWait
    /\ failed_steps = NoFailedSteps
    /\ classifierCalls = 0
    /\ checkVmsCalls = 0
    /\ lookupVm = Absent
    /\ lookupResult = NoLookup
    /\ FindIdle
    /\ SubmitIdle
    /\ VerifyIdle

\* migrate_vms up to the call of run_migration: the VM ids are looked up in
\* the inventory, then the hook references are validated, before anything
\* is created
MigrateVmsStart ==
    /\ pc = "start"
    /\ LET resolved == PopulateVmIds(inventory, plan)
           nxt == IF ~resolved.ok THEN Raise(resolved.value)
                  ELSE IF HookRefsConsistent(plan) THEN Goto("create_plan")
                  ELSE Raise("ValueError")
       IN  /\ vm_ids' = IF resolved.ok THEN resolved.value ELSE resolved.ids
           /\ pc' = nxt.pc
           /\ outcome' = nxt.outcome
    /\ UNCHANGED <<verifyVars, sideVars>>
    /\ UNCHANGED <<findVars, inventory, run_kwargs, planSpec, planSecret, secretObserved>>
    /\ UNCHANGED <<plan, planCreated, planReady, readyObserved, migrationCreated, planConds,
                   migStatus, sampled, last_status, statusLog, wait, failed_steps, classifierCalls,
                   checkVmsCalls, lookupVm, lookupResult>>

\* run_migration: create_and_store_resource(resource=Plan, ...)
RunMigrationCreatePlan ==
    /\ pc = "create_plan"
    /\ planCreated' = TRUE
    /\ planSpec' = [vms |-> VirtualMachinesList(plan.virtual_machines, vm_ids),
                    pvc_name_template |-> PlanPvcNameTemplate(run_kwargs)]
    /\ pc' = "wait_ready"
    /\ UNCHANGED <<verifyVars, sideVars>>
    /\ UNCHANGED <<findVars, inventory, vm_ids, run_kwargs, planSecret, secretObserved>>
    /\ UNCHANGED <<plan, outcome, planReady, readyObserved, migrationCreated, planConds,
                   migStatus, sampled, last_status, statusLog, wait, failed_steps, classifierCalls,
                   checkVmsCalls, lookupVm, lookupResult>>

\* the cluster admits the Plan
ControllerAdmitPlan ==
    /\ pc = "wait_ready"
    /\ planCreated /\ ~planReady
    /\ planReady' = TRUE
    /\ UNCHANGED <<verifyVars, sideVars>>
    /\ UNCHANGED <<findVars, submitVars>>
    /\ UNCHANGED <<pc, plan, outcome, planCreated, readyObserved, migrationCreated, planConds,
                   migStatus, sampled, last_status, statusLog, wait, failed_steps, classifierCalls,
                   checkVmsCalls, lookupVm, lookupResult>>

\* run_migration: wait_for_condition returns
RunMigrationPlanReady ==
    /\ pc = "wait_ready"
    /\ planReady
    /\ LET nxt == AfterPlanWait(TRUE, run_kwargs.copyoffload)
       IN  pc' = nxt.pc /\ outcome' = nxt.outcome
    /\ readyObserved' = TRUE
    /\ UNCHANGED <<verifyVars, sideVars>>
    /\ UNCHANGED <<findVars, submitVars>>
    /\ UNCHANGED <<plan, planCreated, planReady, migrationCreated, planConds,
                   migStatus, sampled, last_status, statusLog, wait, failed_steps, classifierCalls,
                   checkVmsCalls, lookupVm, lookupResult>>

\* run_migration: wait_for_condition times out, the error is logged and re-raised
RunMigrationPlanTimeout ==
    /\ pc = "wait_ready"
    /\ ~planReady
    /\ LET nxt == AfterPlanWait(FALSE, run_kwargs.copyoffload)
       IN  pc' = nxt.pc /\ outcome' = nxt.outcome
    /\ UNCHANGED <<verifyVars, sideVars>>
    /\ UNCHANGED <<findVars, submitVars>>
    /\ UNCHANGED <<plan, planCreated, planReady, readyObserved, migrationCreated, planConds,
                   migStatus, sampled, last_status, statusLog, wait, failed_steps, classifierCalls,
                   checkVmsCalls, lookupVm, lookupResult>>

\* Forklift creates the plan-scoped secret of a copy-offload plan
ControllerCreatePlanSecret ==
    /\ pc \in {"wait_ready", "wait_secret"}
    /\ planCreated /\ run_kwargs.copyoffload /\ ~planSecret
    /\ planSecret' = TRUE
    /\ UNCHANGED <<verifyVars, sideVars>>
    /\ UNCHANGED <<findVars, inventory, vm_ids, run_kwargs, planSpec, secretObserved>>
    /\ UNCHANGED <<pc, plan, outcome, planCreated, planReady, readyObserved, migrationCreated,
                   planConds, migStatus, sampled, last_status, statusLog, wait, failed_steps,
                   classifierCalls, checkVmsCalls, lookupVm, lookupResult>>

\* run_migration: wait_for_plan_secret returns
RunMigrationSecretPresent ==
    /\ pc = "wait_secret"
    /\ planSecret
    /\ LET nxt == wait_for_plan_secret(TRUE)
       IN  pc' = nxt.pc /\ outcome' = nxt.outcome
    /\ secretObserved' = TRUE
    /\ UNCHANGED <<verifyVars, sideVars>>
    /\ UNCHANGED <<findVars, inventory, vm_ids, run_kwargs, planSpec, planSecret>>
    /\ UNCHANGED <<plan, planCreated, planReady, readyObserved, migrationCreated,
                   planConds, migStatus, sampled, last_status, statusLog, wait, failed_steps,
                   classifierCalls, checkVmsCalls, lookupVm, lookupResult>>

\* run_migration: wait_for_plan_secret gives up
RunMigrationSecretTimeout ==
    /\ pc = "wait_secret"
    /\ ~planSecret
    /\ LET nxt == wait_for_plan_secret(FALSE)
       IN  pc' = nxt.pc /\ outcome' = nxt.outcome
    /\ UNCHANGED <<verifyVars, sideVars>>
    /\ UNCHANGED <<findVars, submitVars>>
    /\ UNCHANGED <<plan, planCreated, planReady, readyObserved, migrationCreated,
                   planConds, migStatus, sampled, last_status, statusLog, wait, failed_steps,
                   classifierCalls, checkVmsCalls, lookupVm, lookupResult>>

\* run_migration: create_and_store_resource(resource=Migration, ...); return plan
RunMigrationCreateMigration ==
    /\ pc = "create_migration"
    /\ migrationCreated' = TRUE
    /\ pc' = "polling"
    /\ UNCHANGED <<verifyVars, sideVars>>
    /\ UNCHANGED <<findVars, submitVars>>
    /\ UNCHANGED <<plan, outcome, planCreated, planReady, readyObserved, planConds,
                   migStatus, sampled, last_status, statusLog, wait, failed_steps, classifierCalls,
                   checkVmsCalls, lookupVm, lookupResult>>

\* the migration controller rewrites the Plan's condition list
ControllerSetConditions ==
    /\ pc = "polling"
    /\ \E c \in ControllerConds : c # planConds /\ planConds' = c
    /\ UNCHANGED <<verifyVars, sideVars>>
    /\ UNCHANGED <<findVars, submitVars>>
    /\ UNCHANGED <<pc, plan, outcome, planCreated, planReady, readyObserved, migrationCreated,
                   migStatus, sampled, last_status, statusLog, wait, failed_steps, classifierCalls,
                   checkVmsCalls, lookupVm, lookupResult>>

\* the migration controller publishes the Migration's status with the plan's VMs
ControllerPopulateStatus ==
    /\ pc = "polling"
    /\ ~migStatus.present
    /\ migStatus' = FreshStatus(plan.virtual_machines)
    /\ UNCHANGED <<verifyVars, sideVars>>
    /\ UNCHANGED <<findVars, submitVars>>
    /\ UNCHANGED <<pc, plan, outcome, planCreated, planReady, readyObserved, migrationCreated,
                   planConds, sampled, last_status, statusLog, wait, failed_steps, classifierCalls,
                   checkVmsCalls, lookupVm, lookupResult>>

\* a pipeline step of one VM fails; that VM's pipeline stops there
ControllerFailStep ==
    /\ pc = "polling"
    /\ migStatus.present
    /\ \E i \in DOMAIN migStatus.vms, k \in 1..MaxPipeline :
          /\ ~HasError(migStatus.vms[i].pipeline)
          /\ migStatus' = [migStatus EXCEPT !.vms[i].pipeline[k].error = "boom"]
    /\ UNCHANGED <<verifyVars, sideVars>>
    /\ UNCHANGED <<findVars, submitVars>>
    /\ UNCHANGED <<pc, plan, outcome, planCreated, planReady, readyObserved, migrationCreated,
                   planConds, sampled, last_status, statusLog, wait, failed_steps, classifierCalls,
                   checkVmsCalls, lookupVm, lookupResult>>

\* one iteration of the TimeoutSampler loop of wait_for_migration_complate,
\* and, when it ends the wait, migrate_vms' handling of that end
PollSample ==
    /\ pc = "polling"
    /\ Len(sampled) < MaxSamples
    /\ LET sample == _wait_for_migration_complate(planConds)
           todo == AfterSample(sample)
           w == IF todo = "return"
                THEN [result |-> "returned", error |-> "none", cause |-> SUCCEEDED]
                ELSE [result |-> "raised", error |-> WaitError(FAILED), cause |-> FAILED]
           nxt == AfterWait(plan, w)
       IN  /\ sampled' = Append(sampled, sample)
           /\ last_status' = IF LogsStatus(sample, last_status) THEN sample ELSE last_status
           /\ statusLog' = IF LogsStatus(sample, last_status)
                            THEN Append(statusLog, sample) ELSE statusLog
           /\ IF todo = "continue"
              THEN UNCHANGED <<pc, outcome, wait>>
              ELSE wait' = w /\ pc' = nxt.pc /\ outcome' = nxt.outcome
    /\ UNCHANGED <<verifyVars, sideVars>>
    /\ UNCHANGED <<findVars, submitVars>>
    /\ UNCHANGED <<plan, planCreated, planReady, readyObserved, migrationCreated, planConds,
                   migStatus, failed_steps, classifierCalls, checkVmsCalls, lookupVm,
                   lookupResult>>

\* TimeoutSampler raises TimeoutExpiredError; the except clause re-raises
PollTimeout ==
    /\ pc = "polling"
    /\ Len(sampled) = MaxSamples
    /\ LET w == [result |-> "raised", error |-> WaitError("Timeout"), cause |-> "Timeout"]
           nxt == AfterWait(plan, w)
       IN  wait' = w /\ pc' = nxt.pc /\ outcome' = nxt.outcome
    /\ UNCHANGED <<verifyVars, sideVars>>
    /\ UNCHANGED <<findVars, submitVars>>
    /\ UNCHANGED <<plan, planCreated, planReady, readyObserved, migrationCreated, planConds,
                   migStatus, sampled, last_status, statusLog, failed_steps, classifierCalls,
                   checkVmsCalls, lookupVm, lookupResult>>

\* migrate_vms, except MigrationPlanExecError: failed steps, then the
\* hooks-specific validation when a hook is configured
ClassifyFailure ==
    /\ pc = "classify"
    /\ LET fs == _get_all_vms_failed_steps(migrationCreated, migStatus, plan.virtual_machines)
           nxt == IF HasHooks(plan) THEN HookFailureFlow(plan, fs) ELSE Return
       IN  /\ failed_steps' = fs
           /\ classifierCalls' = IF HasHooks(plan) THEN classifierCalls + 1 ELSE classifierCalls
           /\ pc' = nxt.pc
           /\ outcome' = nxt.outcome
    /\ UNCHANGED <<verifyVars, sideVars>>
    /\ UNCHANGED <<findVars, submitVars>>
    /\ UNCHANGED <<plan, planCreated, planReady, readyObserved, migrationCreated, planConds,
                   migStatus, sampled, last_status, statusLog, wait, checkVmsCalls, lookupVm, lookupResult>>

\* migrate_vms, normal flow after the wait returned
AfterWaitSucceeded ==
    /\ pc = "after_wait"
    /\ LET nxt == IF plan.check_vms_signals THEN Goto("check_vms") ELSE Return
       IN  pc' = nxt.pc /\ outcome' = nxt.outcome
    /\ UNCHANGED <<verifyVars, sideVars>>
    /\ UNCHANGED <<findVars, submitVars>>
    /\ UNCHANGED <<plan, planCreated, planReady, readyObserved, migrationCreated, planConds,
                   migStatus, sampled, last_status, statusLog, wait, failed_steps, classifierCalls,
                   checkVmsCalls, lookupVm, lookupResult>>

\* check_vms reads the source and destination VMs; migrate_vms returns
CheckVms ==
    /\ pc = "check_vms"
    /\ checkVmsCalls' = checkVmsCalls + 1
    /\ pc' = "done"
    /\ outcome' = "returned"
    /\ UNCHANGED <<verifyVars, sideVars>>
    /\ UNCHANGED <<findVars, submitVars>>
    /\ UNCHANGED <<plan, planCreated, planReady, readyObserved, migrationCreated, planConds,
                   migStatus, sampled, last_status, statusLog, wait, failed_steps, classifierCalls,
                   lookupVm, lookupResult>>

Next ==
    \/ MigrateVmsStart
    \/ RunMigrationCreatePlan
    \/ ControllerAdmitPlan
    \/ RunMigrationPlanReady
    \/ RunMigrationPlanTimeout
    \/ RunMigrationCreateMigration
    \/ ControllerSetConditions
    \/ ControllerPopulateStatus
    \/ ControllerFailStep
    \/ PollSample
    \/ PollTimeout
    \/ ClassifyFailure
    \/ AfterWaitSucceeded
    \/ CheckVms

Spec == Init /\ [][Next]_vars


\* ------------------------------------------- the sampling function alone

DefaultPlan ==
    [expected_migration_result |-> "succeed",
     pre_hook |-> [name |-> FALSE, namespace |-> FALSE],
     post_hook |-> [name |-> FALSE, namespace |-> FALSE],
     virtual_machines |-> <<"vm-a">>,
     expected_step |-> "PostHook",
     check_vms_signals |-> TRUE]

InitSample ==
    /\ pc = "sample"
    /\ plan = DefaultPlan
    /\ outcome = "none"
    /\ planCreated = TRUE
    /\ planReady = TRUE
    /\ readyObserved = TRUE
    /\ migrationCreated = TRUE
    /\ planConds \in CondLists
    /\ migStatus = NoStatus
    /\ sampled = <<>>
    /\ last_status = ""
    /\ statusLog = <<>>
    /\ SideIdle
    /\ wait = NoWait
    /\ failed_steps = NoFailedSteps
    /\ classifierCalls = 0
    /\ checkVmsCalls = 0
    /\ lookupVm = Absent
    /\ lookupResult = NoLookup
    /\ FindIdle
    /\ SubmitIdle
    /\ VerifyIdle

\* _wait_for_migration_complate(_plan) applied to the Plan as it stands
SampleConditions ==
    /\ pc = "sample"
    /\ Len(sampled) < MaxSamples
    /\ sampled' = Append(sampled, _wait_for_migration_complate(planConds))
    /\ planConds' = ConditionsAfterSample(planConds)
    /\ UNCHANGED <<verifyVars, sideVars>>
    /\ UNCHANGED <<findVars, submitVars>>
    /\ UNCHANGED <<pc, plan, outcome, planCreated, planReady, readyObserved, migrationCreated,
                   migStatus, last_status, statusLog, wait, failed_steps, classifierCalls,
                   checkVmsCalls, lookupVm, lookupResult>>

NextSample == SampleConditions

SpecSample == InitSample /\ [][NextSample]_vars

\* --------------------------------------------- the failed-step lookup alone

PipelinesOfLen(n) ==
    {[i \in 1..n |-> [name |-> StepName(i), error |-> e[i]]] : e \in [1..n -> StepErrors]}

Pipelines == UNION {PipelinesOfLen(n) : n \in 0..MaxPipeline}

VmEntries == {[id |-> IdOf(n), name |-> n, pipeline |-> p] : n \in VmNames, p \in Pipelines}

LookupStatuses ==
    {NoStatus} \cup
    {[present |-> TRUE, vms |-> v] : v \in SeqsUpTo(VmEntries, Cardinality(VmNames))}

LookupNames == {"vm-a", "id-b", "vm-c"}

InitLookup ==
    /\ pc = "lookup"
    /\ plan = DefaultPlan
    /\ outcome = "none"
    /\ planCreated = TRUE
    /\ planReady = TRUE
    /\ readyObserved = TRUE
    /\ migrationCreated \in BOOLEAN
    /\ planConds = <<>>
    /\ migStatus \in (IF migrationCreated THEN LookupStatuses ELSE {NoStatus})
    /\ sampled = <<>>
    /\ last_status = ""
    /\ statusLog = <<>>
    /\ SideIdle
    /\ wait = NoWait
    /\ failed_steps = NoFailedSteps
    /\ classifierCalls = 0
    /\ checkVmsCalls = 0
    /\ lookupVm \in LookupNames
    /\ lookupResult = NoLookup
    /\ FindIdle
    /\ SubmitIdle
    /\ VerifyIdle

\* _get_failed_migration_step(plan, vm_name)
LookupFailedStep ==
    /\ pc = "lookup"
    /\ lookupResult' = _get_failed_migration_step(migrationCreated, migStatus, lookupVm)
    /\ pc' = "looked_up"
    /\ UNCHANGED <<verifyVars, sideVars>>
    /\ UNCHANGED <<findVars, submitVars>>
    /\ UNCHANGED <<plan, outcome, planCreated, planReady, readyObserved, migrationCreated,
                   planConds, migStatus, sampled, last_status, statusLog, wait, failed_steps,
                   classifierCalls, checkVmsCalls, lookupVm>>

\* vm_names argument of a direct _get_all_vms_failed_steps call
CollectNames == <<"vm-a", "vm-b">>

\* _get_all_vms_failed_steps(plan, vm_names)
CollectFailedSteps ==
    /\ pc = "lookup"
    /\ failed_steps' = _get_all_vms_failed_steps(migrationCreated, migStatus, CollectNames)
    /\ pc' = "collected"
    /\ UNCHANGED <<verifyVars, sideVars>>
    /\ UNCHANGED <<findVars, submitVars>>
    /\ UNCHANGED <<plan, outcome, planCreated, planReady, readyObserved, migrationCreated,
                   planConds, migStatus, sampled, last_status, statusLog, wait,
                   classifierCalls, checkVmsCalls, lookupVm, lookupResult>>

NextLookup == LookupFailedStep \/ CollectFailedSteps

SpecLookup == InitLookup /\ [][NextLookup]_vars


\* ------------------------------------------ the Migration of a plan alone

MaxMigrations == 3

Epoch == 0

\* the Plan whose Migration is looked for
ThePlan == [name |-> "plan-1", namespace |-> "ns-1"]

\* spec.plan of a listed Migration; Absent where the reference is missing
PlanRefs ==
    {[name |-> "plan-1", namespace |-> "ns-1"],
     [name |-> "plan-2", namespace |-> "ns-1"],
     [name |-> "plan-1", namespace |-> "ns-2"],
     [name |-> Absent, namespace |-> Absent]}

\* metadata.creationTimestamp in seconds; <<>> where the field is missing
Timestamps == {<<>>, <<1>>, <<2>>}

MigrationObjs == [plan_ref : PlanRefs, ts : Timestamps]

\* the items Migration.get yields, each tagged with its position
MigrationListings ==
    {[i \in DOMAIN l |-> [uid |-> i, plan_ref |-> l[i].plan_ref, ts |-> l[i].ts]] :
        l \in SeqsUpTo(MigrationObjs, MaxMigrations)}

\* 200: the listing ended normally; otherwise the status of the ApiException
HttpStatuses == {200, 403, 404, 500}

ApiResponses == [status : HttpStatuses, items : MigrationListings]

ApiException(status) == [ok |-> FALSE, value |-> "ApiException", status |-> status]

\* the list comprehension over Migration.get: keep the plan's Migrations
RECURSIVE MigrationsOfPlan(_, _, _)
MigrationsOfPlan(items, p, i) ==
    IF i > Len(items) THEN <<>>
    ELSE IF items[i].plan_ref.name = p.name /\ items[i].plan_ref.namespace = p.namespace
         THEN <<items[i]>> \o MigrationsOfPlan(items, p, i + 1)
         ELSE MigrationsOfPlan(items, p, i + 1)

\* key of migrations.sort: the creation timestamp, the epoch where missing
CreationKey(m) == IF m.ts = <<>> THEN Epoch ELSE m.ts[1]

\* one step of the stable sort: m goes behind every element not after it
RECURSIVE InsertByCreation(_, _)
InsertByCreation(sorted, m) ==
    IF Len(sorted) = 0 THEN <<m>>
    ELSE IF CreationKey(sorted[Len(sorted)]) <= CreationKey(m) THEN Append(sorted, m)
    ELSE Append(InsertByCreation(SubSeq(sorted, 1, Len(sorted) - 1), m), sorted[Len(sorted)])

\* no sort: the Migrations stay as listed
KeepsListedOrder(ms, n) == SubSeq(ms, 1, n)

RECURSIVE SortByCreation(_, _)
SortByCreation(ms, n) ==
    IF n = 0 THEN <<>> ELSE InsertByCreation(SortByCreation(ms, n - 1), ms[n])

\* every ApiException becomes MigrationNotFoundError
FindHidesApiErrors(response, p) ==
    IF response.status # 200 THEN Err("MigrationNotFoundError")
    ELSE LET migrations == MigrationsOfPlan(response.items, p, 1)
         IN  IF Len(migrations) = 0 THEN Err("MigrationNotFoundError")
             ELSE Ok(SortByCreation(migrations, Len(migrations))[Len(migrations)])

\* _find_migration_for_plan(plan)
_find_migration_for_plan(response, p) ==
    IF response.status = 404 THEN Err("MigrationNotFoundError")
    ELSE IF response.status # 200 THEN ApiException(response.status)
    ELSE LET migrations == MigrationsOfPlan(response.items, p, 1)
         IN  IF Len(migrations) = 0 THEN Err("MigrationNotFoundError")
             ELSE IF Len(migrations) > 1
                  THEN Ok(SortByCreation(migrations, Len(migrations))[Len(migrations)])
                  ELSE Ok(migrations[Len(migrations)])

InitFind ==
    /\ pc = "find"
    /\ plan = DefaultPlan
    /\ outcome = "none"
    /\ planCreated = TRUE
    /\ planReady = TRUE
    /\ readyObserved = TRUE
    /\ migrationCreated = FALSE
    /\ planConds = <<>>
    /\ migStatus = NoStatus
    /\ sampled = <<>>
    /\ last_status = ""
    /\ statusLog = <<>>
    /\ SideIdle
    /\ wait = NoWait
    /\ failed_steps = NoFailedSteps
    /\ classifierCalls = 0
    /\ checkVmsCalls = 0
    /\ lookupVm = "vm-a"
    /\ lookupResult = NoLookup
    /\ api \in ApiResponses
    /\ findResult = NoFind
    /\ SubmitIdle
    /\ VerifyIdle

\* _find_migration_for_plan(plan) against one answer of the API server
FindMigration ==
    /\ pc = "find"
    /\ findResult' = _find_migration_for_plan(api, ThePlan)
    /\ pc' = "found"
    /\ UNCHANGED <<verifyVars, sideVars>>
    /\ UNCHANGED submitVars
    /\ UNCHANGED <<plan, outcome, planCreated, planReady, readyObserved, migrationCreated,
                   planConds, migStatus, sampled, last_status, statusLog, wait, failed_steps,
                   classifierCalls, checkVmsCalls, lookupVm, lookupResult, api>>

NextFind == FindMigration

SpecFind == InitFind /\ [][NextFind]_vars

\* ---------------------------------------------------- plan submission alone

\* plans submitted with one VM and with two
SubmitPlans == {[DefaultPlan EXCEPT !.virtual_machines = v] : v \in VmLists}

\* migrate_vms with and without an inventory, run_migration with and without
\* copy-offload
InitSubmit ==
    /\ pc = "start"
    /\ plan \in SubmitPlans
    /\ outcome = "none"
    /\ planCreated = FALSE
    /\ planReady = FALSE
    /\ readyObserved = FALSE
    /\ migrationCreated = FALSE
    /\ planConds = <<>>
    /\ migStatus = NoStatus
    /\ sampled = <<>>
    /\ last_status = ""
    /\ statusLog = <<>>
    /\ SideIdle
    /\ wait = NoWait
    /\ failed_steps = NoFailedSteps
    /\ classifierCalls = 0
    /\ checkVmsCalls = 0
    /\ lookupVm = "vm-a"
    /\ lookupResult = NoLookup
    /\ FindIdle
    /\ inventory \in Inventories
    /\ vm_ids = NoIds(plan)
    /\ run_kwargs \in RunKwargs
    /\ planSpec = NoPlanSpec
    /\ planSecret = FALSE
    /\ secretObserved = FALSE
    /\ VerifyIdle

\* migrate_vms up to the return of run_migration
NextSubmit ==
    \/ MigrateVmsStart
    \/ RunMigrationCreatePlan
    \/ ControllerAdmitPlan
    \/ RunMigrationPlanReady
    \/ RunMigrationPlanTimeout
    \/ ControllerCreatePlanSecret
    \/ RunMigrationSecretPresent
    \/ RunMigrationSecretTimeout
    \/ RunMigrationCreateMigration

SpecSubmit == InitSubmit /\ [][NextSubmit]_vars

\* ------------------------------------------------- the check functions alone

\* no migration is under study
MigrateIdle ==
    /\ plan = DefaultPlan
    /\ outcome = "none"
    /\ planCreated = TRUE
    /\ planReady = TRUE
    /\ readyObserved = TRUE
    /\ migrationCreated = TRUE
    /\ planConds = <<>>
    /\ migStatus = NoStatus
    /\ sampled = <<>>
    /\ last_status = ""
    /\ statusLog = <<>>
    /\ wait = NoWait
    /\ failed_steps = NoFailedSteps
    /\ classifierCalls = 0
    /\ checkVmsCalls = 0
    /\ lookupVm = "vm-a"
    /\ lookupResult = NoLookup
    /\ FindIdle
    /\ SubmitIdle

InitNetwork ==
    /\ pc = "check_network"
    /\ MigrateIdle
    /\ SideIdle
    /\ checkArgs \in NetworkArgs
    /\ checkResult = NoVerdict
    /\ vcfg = NoVerifyConfig
    /\ vcur = NoCursor
    /\ vlog = NoLog

\* check_network(source_provider_data, source_vm, destination_vm, network_migration_map)
CheckNetwork ==
    /\ pc = "check_network"
    /\ checkResult' = check_network(checkArgs.source_nics, checkArgs.destination_nics,
                                    checkArgs.network_map)
    /\ pc' = "network_checked"
    /\ UNCHANGED <<outcome, checkArgs, vcfg, vcur, vlog>>
    /\ UNCHANGED <<migrateVars, findVars, submitVars, sideVars>>

NextNetwork == CheckNetwork

SpecNetwork == InitNetwork /\ [][NextNetwork]_vars

InitStorage ==
    /\ pc = "check_storage"
    /\ MigrateIdle
    /\ SideIdle
    /\ checkArgs \in StorageArgs
    /\ checkResult = NoVerdict
    /\ vcfg = NoVerifyConfig
    /\ vcur = NoCursor
    /\ vlog = NoLog

\* check_storage(source_vm, destination_vm, storage_map_resource)
CheckStorage ==
    /\ pc = "check_storage"
    /\ checkResult' = check_storage(checkArgs.source_disks, checkArgs.destination_disks,
                                    checkArgs.storage_map, checkArgs.storage_class)
    /\ pc' = "storage_checked"
    /\ UNCHANGED <<outcome, checkArgs, vcfg, vcur, vlog>>
    /\ UNCHANGED <<migrateVars, findVars, submitVars, sideVars>>

NextStorage == CheckStorage

SpecStorage == InitStorage /\ [][NextStorage]_vars

\* ---------------------------------------------------------- check_vms alone

InitVerify ==
    /\ pc = "verify_vm"
    /\ MigrateIdle
    /\ SideIdle
    /\ checkArgs = None
    /\ checkResult = NoVerdict
    /\ vcfg \in VerifyConfigs
    /\ vcur = NoCursor
    /\ vlog = NoLog

\* one check of the loop body ran: its failures are recorded, an exception
\* leaves check_vms
VerifyStep(name, nxt, v) ==
    /\ vlog' = [vlog EXCEPT !.ran = Append(@, name), !.failures = @ \o v.failures]
    /\ pc' = IF v.error = "none" THEN nxt ELSE "raised"
    /\ outcome' = v.error
    /\ UNCHANGED <<checkArgs, checkResult, vcfg, vcur>>
    /\ UNCHANGED <<migrateVars, findVars, submitVars, sideVars>>

\* the condition of an optional check is false
VerifySkip(nxt) ==
    /\ pc' = nxt
    /\ UNCHANGED <<outcome, verifyVars, migrateVars, findVars, submitVars, sideVars>>

\* for vm in virtual_machines: source_vm = ..., destination_vm = ...
VerifyReadVm ==
    /\ pc = "verify_vm"
    /\ vcur.index < Len(vcfg.virtual_machines)
    /\ \E r \in VmReadings : vcur' = [index |-> vcur.index + 1, reading |-> r]
    /\ vlog' = [vlog EXCEPT !.ran = <<>>, !.failures = <<>>]
    /\ pc' = "verify_power"
    /\ UNCHANGED <<outcome, checkArgs, checkResult, vcfg>>
    /\ UNCHANGED <<migrateVars, findVars, submitVars, sideVars>>

\* the loop of check_vms is exhausted
VerifyReturn ==
    /\ pc = "verify_vm"
    /\ vcur.index = Len(vcfg.virtual_machines)
    /\ pc' = "verify_done"
    /\ UNCHANGED <<outcome, verifyVars, migrateVars, findVars, submitVars, sideVars>>

VerifyPowerState ==
    /\ pc = "verify_power"
    /\ \E source_power \in {"off", "on"} :
          VerifyStep("power_state", "verify_cpu",
                     check_vms_power_state(source_power, "off", Absent))

VerifyCpu ==
    /\ pc = "verify_cpu"
    /\ \E cores \in {2, 4} :
          VerifyStep("cpu", "verify_memory",
                     check_cpu([num_cores |-> 2, num_sockets |-> 1],
                               [num_cores |-> cores, num_sockets |-> 1]))

VerifyMemory ==
    /\ pc = "verify_memory"
    /\ \E destination_mb \in {4096} :
          VerifyStep("memory", "verify_network", check_memory(4096, destination_mb))

VerifyNetwork ==
    /\ pc = "verify_network"
    /\ \E network \in UntypedNetworks, mac \in Macs :
          VerifyStep("network", "verify_storage",
                     check_network(SourceNicsOf(network), DestinationNicsOf(mac),
                                   VerifyNetworkMap))

VerifyStorage ==
    /\ pc = "verify_storage"
    /\ VerifyStep("storage", "verify_migration_network",
                  check_storage(<<"ds-1">>, <<[name |-> "nfs", access_mode |-> <<RWX>>]>>,
                                <<>>, "nfs"))

\* if source_provider_host and source_provider_data: check_migration_network
VerifyMigrationNetwork ==
    /\ pc = "verify_migration_network"
    /\ IF vcfg.source_provider_host
       THEN \E on_host \in BOOLEAN :
               VerifyStep("migration_network", "verify_data_integrity",
                          SoftCheck(on_host, "migration network"))
       ELSE VerifySkip("verify_data_integrity")

\* if plan.get("warm_migration") and plan.get("pre_copies_before_cut_over")
VerifyDataIntegrity ==
    /\ pc = "verify_data_integrity"
    /\ IF DataIntegrityApplies(vcfg)
       THEN \E v \in DataIntegrityOutcomes :
               VerifyStep("data_integrity", "verify_snapshots", v)
       ELSE VerifySkip("verify_snapshots")

\* if "snapshots_before_migration" in vm and vmware_provider(...)
VerifySnapshots ==
    /\ pc = "verify_snapshots"
    /\ IF SnapshotCheckApplies(vcfg, vcur.reading)
       THEN VerifyStep("source_vm_snapshots", "verify_guest_agent",
                       check_source_vm_snapshots(vcur.reading.snapshots_before_migration,
                                                 vcur.reading.snapshots_data))
       ELSE VerifySkip("verify_guest_agent")

\* if vm_guest_agent: check_guest_agent
VerifyGuestAgent ==
    /\ pc = "verify_guest_agent"
    /\ IF vcur.reading.guest_agent
       THEN \E running \in BOOLEAN :
               VerifyStep("guest_agent", "verify_power_off", SoftCheck(running, "guest agent"))
       ELSE VerifySkip("verify_power_off")

\* if rhv_provider(source_provider_data): check_false_vm_power_off
VerifyPowerOffEvent ==
    /\ pc = "verify_power_off"
    /\ IF rhv_provider(vcfg)
       THEN \E event \in BOOLEAN :
               VerifyStep("false_vm_power_off", "verify_next", SoftCheck(~event, "power off event"))
       ELSE VerifySkip("verify_next")

\* the end of the loop body: on to the next VM
VerifyNextVm ==
    /\ pc = "verify_next"
    /\ vlog' = [vlog EXCEPT !.verified = @ + 1]
    /\ pc' = "verify_vm"
    /\ UNCHANGED <<outcome, checkArgs, checkResult, vcfg, vcur>>
    /\ UNCHANGED <<migrateVars, findVars, submitVars, sideVars>>

NextVerify ==
    \/ VerifyReadVm
    \/ VerifyReturn
    \/ VerifyPowerState
    \/ VerifyCpu
    \/ VerifyMemory
    \/ VerifyNetwork
    \/ VerifyStorage
    \/ VerifyMigrationNetwork
    \/ VerifyDataIntegrity
    \/ VerifySnapshots
    \/ VerifyGuestAgent
    \/ VerifyPowerOffEvent
    \/ VerifyNextVm

SpecVerify == InitVerify /\ [][NextVerify]_vars

\* ------------------------------------------- gen_network_map_list alone

InitNetMap ==
    /\ pc = "gen_network_map"
    /\ MigrateIdle
    /\ VerifyIdle
    /\ netArgs \in NetMapArgs
    /\ network_map_list = NoNetworkMap
    /\ AdapterIdle
    /\ ScopeIdle
    /\ CephIdle
    /\ SessionIdle

\* gen_network_map_list(...) is called and returns
GenNetworkMapList ==
    /\ pc = "gen_network_map"
    /\ network_map_list' =
           [returned |-> TRUE,
            list |-> gen_network_map_list(netArgs.networks, netArgs.target_namespace,
                                          netArgs.multus_network_name, netArgs.pod_only)]
    /\ pc' = "network_map_generated"
    /\ UNCHANGED <<outcome, netArgs, migrateVars, findVars, submitVars, verifyVars,
                   adapterVars, scope, ceph, teardown>>

NextNetMap == GenNetworkMapList

SpecNetMap == InitNetMap /\ [][NextNetMap]_vars

\* ----------------------------------------------- the vSphere adapter alone

\* a VMWareProvider as constructed: no session yet
InitVms ==
    /\ pc = "adapter"
    /\ MigrateIdle
    /\ VerifyIdle
    /\ NetMapIdle
    /\ vsphere \in [session : {"none"}, all_vms : VsphereInventories]
    /\ vmsCall = NoVmsCall
    /\ ScopeIdle
    /\ CephIdle
    /\ SessionIdle

\* connect() called by the scope that owns the adapter
AdapterConnect ==
    /\ pc = "adapter"
    /\ \E reachable \in BOOLEAN :
          vsphere' = [vsphere EXCEPT !.session = connect(@, reachable).session]
    /\ UNCHANGED <<pc, outcome, vmsCall, migrateVars, findVars, submitVars, verifyVars,
                   netMapVars, scope, ceph, teardown>>

\* disconnect(): Disconnect(si=self.api) ends the session
AdapterDisconnect ==
    /\ pc = "adapter"
    /\ vsphere.session # "none"
    /\ vsphere' = [vsphere EXCEPT !.session = "none"]
    /\ UNCHANGED <<pc, outcome, vmsCall, migrateVars, findVars, submitVars, verifyVars,
                   netMapVars, scope, ceph, teardown>>

\* the vCenter drops the session (idle timeout, restart)
SessionExpires ==
    /\ pc = "adapter"
    /\ vsphere.session = "live"
    /\ vsphere' = [vsphere EXCEPT !.session = "stale"]
    /\ UNCHANGED <<pc, outcome, vmsCall, migrateVars, findVars, submitVars, verifyVars,
                   netMapVars, scope, ceph, teardown>>

\* vms(query): the probe, the reconnect it may ask for, then the container
\* view and the screening; a session that answered the probe, or was just
\* opened, lasts through the call
AdapterVms ==
    /\ pc = "adapter"
    /\ \E query \in Queries, reachable \in BOOLEAN :
          LET s == EnsureSession(vsphere.session, reachable)
          IN  /\ vsphere' = [vsphere EXCEPT !.session = s.session]
              /\ vmsCall' =
                     [called |-> TRUE, query |-> query,
                      session_before |-> vsphere.session,
                      probe |-> s.probe, reconnected |-> s.reconnected,
                      enumerated_on |-> IF s.ok THEN s.session ELSE "none",
                      result |-> IF ~s.ok THEN VmsRaise("ConnectError")
                                 ELSE IF s.session # "live" THEN VmsRaise("NotAuthenticated")
                                 ELSE vms(vsphere.all_vms, query)]
    /\ UNCHANGED <<pc, outcome, migrateVars, findVars, submitVars, verifyVars, netMapVars,
                   scope, ceph, teardown>>

NextVms == AdapterConnect \/ AdapterDisconnect \/ SessionExpires \/ AdapterVms

SpecVms == InitVms /\ [][NextVms]_vars

\* ------------------------------------------ the source_provider fixture alone

InitScope ==
    /\ pc = "scope_enter"
    /\ MigrateIdle
    /\ VerifyIdle
    /\ NetMapIdle
    /\ AdapterIdle
    /\ scope \in {ScopeOf(input) : input \in ScopeInputs}
    /\ CephIdle
    /\ SessionIdle

\* create_source_provider enters "with source_provider(...)": __enter__
\* calls connect()
ScopeEnter ==
    /\ pc = "scope_enter"
    /\ IF scope.input.connect_ok
       THEN /\ scope' = [scope EXCEPT !.connected = TRUE]
            /\ pc' = "scope_probe"
            /\ UNCHANGED outcome
       ELSE /\ pc' = "scope_raised"
            /\ outcome' = "ConnectError"
            /\ UNCHANGED scope
    /\ UNCHANGED <<migrateVars, findVars, submitVars, verifyVars, netMapVars, adapterVars,
                   ceph, teardown>>

\* create_source_provider probes the provider: pytest.skip leaves the with
\* block through __exit__ and the fixture; otherwise the provider is yielded,
\* the fixture fills _teardown, the with block ends through __exit__ and the
\* fixture yields to the session
ScopeProbe ==
    /\ pc = "scope_probe"
    /\ scope' = Provider__exit__(scope)
    /\ IF scope.input.test_ok
       THEN pc' = "scope_session" /\ UNCHANGED outcome
       ELSE pc' = "scope_skipped" /\ outcome' = "Skipped"
    /\ UNCHANGED <<migrateVars, findVars, submitVars, verifyVars, netMapVars, adapterVars,
                   ceph, teardown>>

\* the tests of the session run; pytest then resumes the fixture whether
\* they passed or failed
ScopeSession ==
    /\ pc = "scope_session"
    /\ pc' = "scope_teardown"
    /\ UNCHANGED <<outcome, scope, migrateVars, findVars, submitVars, verifyVars,
                   netMapVars, adapterVars, ceph, teardown>>

\* one iteration of "for _resource in _teardown"
ScopeCleanUp ==
    /\ pc = "scope_teardown"
    /\ scope.next <= Len(scope.input._teardown)
    /\ LET _resource == scope.input._teardown[scope.next]
       IN  IF _resource = "raises"
           THEN /\ pc' = "scope_raised"
                /\ outcome' = "CleanUpError"
                /\ UNCHANGED scope
           ELSE /\ scope' = [scope EXCEPT !.next = @ + 1,
                                          !.cleaned = IF _resource = "None" THEN @ ELSE @ + 1]
                /\ UNCHANGED <<pc, outcome>>
    /\ UNCHANGED <<migrateVars, findVars, submitVars, verifyVars, netMapVars, adapterVars,
                   ceph, teardown>>

\* source_provider_object.disconnect(), the last statement of the fixture
ScopeDisconnect ==
    /\ pc = "scope_teardown"
    /\ scope.next > Len(scope.input._teardown)
    /\ scope' = [scope EXCEPT !.disconnected = TRUE]
    /\ pc' = "scope_done"
    /\ outcome' = "returned"
    /\ UNCHANGED <<migrateVars, findVars, submitVars, verifyVars, netMapVars, adapterVars,
                   ceph, teardown>>

NextScope == ScopeEnter \/ ScopeProbe \/ ScopeSession \/ ScopeCleanUp \/ ScopeDisconnect

SpecScope == InitScope /\ [][NextScope]_vars

\* ------------------------------------------------- run_ceph_cleanup alone

InitCeph ==
    /\ pc = "ceph_loop"
    /\ MigrateIdle
    /\ VerifyIdle
    /\ NetMapIdle
    /\ AdapterIdle
    /\ ScopeIdle
    /\ ceph \in CephPools
    /\ SessionIdle

\* the body of "while True" runs once
CephLoopIteration ==
    /\ pc = "ceph_loop"
    /\ ceph.iterations < MaxIterations
    /\ \E fault \in ExecFaults : ceph' = CephIteration(ceph, fault)
    /\ UNCHANGED <<pc, outcome, migrateVars, findVars, submitVars, verifyVars, netMapVars,
                   adapterVars, scope, teardown>>

\* migrations and their cleanup fill and empty the pool between iterations
PoolUsageChanges ==
    /\ pc = "ceph_loop"
    /\ \E p \in PercentUsed :
          /\ p # ceph.percent_used
          /\ ceph' = [ceph EXCEPT !.percent_used = p]
    /\ UNCHANGED <<pc, outcome, migrateVars, findVars, submitVars, verifyVars, netMapVars,
                   adapterVars, scope, teardown>>

\* an exception other than ExecOnPodError leaves the loop through finally
CephLoopLeft ==
    /\ pc = "ceph_loop"
    /\ ceph' = CephFinally(ceph)
    /\ pc' = "ceph_left"
    /\ UNCHANGED <<outcome, migrateVars, findVars, submitVars, verifyVars, netMapVars,
                   adapterVars, scope, teardown>>

NextCeph == CephLoopIteration \/ PoolUsageChanges \/ CephLoopLeft

SpecCeph == InitCeph /\ [][NextCeph]_vars

\* ------------------------------------------------- session_teardown alone

InitTeardown ==
    /\ pc = "teardown_cancel"
    /\ MigrateIdle
    /\ VerifyIdle
    /\ NetMapIdle
    /\ AdapterIdle
    /\ ScopeIdle
    /\ CephIdle
    /\ teardown \in {SessionOf(store) : store \in SessionStores}

\* try: cancel_migrations(...)
TeardownCancelMigrations ==
    /\ pc = "teardown_cancel"
    /\ LET r == cancel_migrations(teardown.store.migrations)
       IN  /\ teardown' = [teardown EXCEPT !.calls = Append(@, "cancel_migrations"),
                                         !.events = @ \o r.events,
                                         !.raising = ~r.ok]
           /\ pc' = AfterTryStep(r.ok, "teardown_archive")
    /\ UNCHANGED <<outcome, migrateVars, findVars, submitVars, verifyVars, netMapVars,
                   adapterVars, scope, ceph>>

\* archive_plans(...), the second statement of the try block
TeardownArchivePlans ==
    /\ pc = "teardown_archive"
    /\ LET r == archive_plans(teardown.store.plans)
       IN  /\ teardown' = [teardown EXCEPT !.calls = Append(@, "archive_plans"),
                                         !.events = @ \o r.events,
                                         !.raising = ~r.ok]
           /\ pc' = AfterTryStep(r.ok, "teardown_finally")
    /\ UNCHANGED <<outcome, migrateVars, findVars, submitVars, verifyVars, netMapVars,
                   adapterVars, scope, ceph>>

\* finally: teardown_resources(...); session_teardown then returns, or the
\* exception of the try block or of teardown_resources goes on
TeardownResources ==
    /\ pc = "teardown_finally"
    /\ LET r == teardown_resources(teardown.store)
       IN  /\ teardown' = [teardown EXCEPT !.calls = Append(@, "teardown_resources"),
                                         !.events = @ \o r.events,
                                         !.raising = @ \/ ~r.ok]
           /\ pc' = IF teardown.raising \/ ~r.ok THEN "teardown_raised" ELSE "teardown_done"
           /\ outcome' = IF teardown.raising \/ ~r.ok THEN "Exception" ELSE "returned"
    /\ UNCHANGED <<migrateVars, findVars, submitVars, verifyVars, netMapVars,
                   adapterVars, scope, ceph>>

NextTeardown == TeardownCancelMigrations \/ TeardownArchivePlans \/ TeardownResources

SpecTeardown == InitTeardown /\ [][NextTeardown]_vars

\* ------------------------------------------------------------------ claims

IsTerminalCondition(c) ==
    c.category = "Advisory" /\ c.status = "True" /\ c.type \in {"Succeeded", "Failed"}

\* C1: the sampling function returns a terminal state exactly when the
\* condition list holds a condition with category "Advisory", status "True"
\* and type Succeeded or Failed, the state returned is the type of such a
\* condition, and every other list is classified "Executing".
C1_SampleClassification ==
    \A k \in DOMAIN sampled :
        LET r == sampled[k]
            has == \E i \in DOMAIN planConds : IsTerminalCondition(planConds[i])
        IN  /\ (r \in {"Succeeded", "Failed"}) <=> has
            /\ has => \E i \in DOMAIN planConds :
                          IsTerminalCondition(planConds[i]) /\ planConds[i].type = r
            /\ ~has => r = "Executing"

\* C1 witness: a near miss (status "true") in front of a real Failed condition
C1_Witness ==
    /\ pc = "sample"
    /\ Len(sampled) > 0
    /\ Len(planConds) = 2
    /\ planConds[1] = Cond("Advisory", "true", "Succeeded")
    /\ planConds[2] = Cond("Advisory", "True", "Failed")
    /\ sampled[1] = "Failed"

\* C2: the wait returns normally only after a Succeeded sample with no Failed
\* sample before it; a terminal sample is always the last sample taken; a
\* Failed sample makes the wait raise MigrationPlanExecError and a Succeeded
\* sample makes it return.
C2_WaitEndsAtFirstTerminalSample ==
    LET n == Len(sampled)
    IN  /\ wait.result = "returned" =>
              /\ n > 0
              /\ sampled[n] = "Succeeded"
              /\ \A i \in 1..n : sampled[i] # "Failed"
        /\ \A i \in 1..n : sampled[i] \in {"Succeeded", "Failed"} => i = n
        /\ (n > 0 /\ sampled[n] = "Failed") =>
              wait.result = "raised" /\ wait.error = "MigrationPlanExecError"
        /\ (n > 0 /\ sampled[n] = "Succeeded") => wait.result = "returned"

\* C2 witness: an Executing sample, then a Failed one that ends the wait
C2_Witness ==
    /\ sampled = <<"Executing", "Failed">>
    /\ wait.result = "raised"
    /\ wait.cause = "Failed"

\* C3: a wait that ends by timeout raises an error of another kind than the
\* error raised for a run that reached terminal Failed.
C3_TimeoutErrorIsDistinct ==
    wait.cause = "Timeout" => wait.error # WaitError("Failed")

\* C4: no check_vms call is made, or about to be made, unless some sample
\* classified the run as Succeeded or Failed.
C4_VerificationAfterTerminalSample ==
    (pc = "check_vms" \/ checkVmsCalls > 0) =>
        \E i \in DOMAIN sampled : sampled[i] \in {"Succeeded", "Failed"}

\* C5: with expected_migration_result 'fail', migrate_vms returns normally
\* only if a sample observed terminal Failed.
C5_ExpectedFailureNeedsFailed ==
    (plan.expected_migration_result = "fail" /\ outcome = "returned") =>
        \E i \in DOMAIN sampled : sampled[i] = "Failed"

\* C6: the Migration is created only after the Plan was created and then
\* observed Ready; a Plan that is not Ready in time ends run_migration with
\* the timeout error and without a Migration.
C6_MigrationOnlyAfterPlanReady ==
    /\ migrationCreated => (planCreated /\ planReady /\ readyObserved)
    /\ readyObserved => planReady
    /\ planReady => planCreated
    /\ outcome = "TimeoutExpiredError" => (pc = "raised" /\ ~migrationCreated)
    /\ (pc = "raised" /\ planCreated /\ ~readyObserved) =>
          (outcome = "TimeoutExpiredError" /\ ~migrationCreated)

\* C6 witness: the Migration exists, created after the Plan was seen Ready
C6_Witness ==
    /\ pc = "polling"
    /\ migrationCreated
    /\ readyObserved

\* C7: without a pre-hook and without a post-hook the hook-failure
\* classification is never invoked and check_vms is never reached on the
\* expected-failure path.
C7_NoHooksNoClassifier ==
    (~plan.pre_hook.name /\ ~plan.post_hook.name) =>
        /\ classifierCalls = 0
        /\ plan.expected_migration_result = "fail" =>
              (checkVmsCalls = 0 /\ pc # "check_vms")

\* C7 witness: no hooks, failure expected, two VMs that failed at different
\* steps, and migrate_vms returned
C7_Witness ==
    /\ ~plan.pre_hook.name /\ ~plan.post_hook.name
    /\ plan.expected_migration_result = "fail"
    /\ pc = "done"
    /\ DOMAIN failed_steps = {"vm-a", "vm-b"}
    /\ failed_steps["vm-a"] = "PostHook"
    /\ failed_steps["vm-b"] = "DiskTransfer"

HookConfigured == plan.pre_hook.name \/ plan.post_hook.name

Classified == DOMAIN failed_steps # {}

\* C8: with a hook configured and failure expected, two VMs reporting
\* different failed steps end migrate_vms with the inconsistent-failure-step
\* error and check_vms is not called.
C8_DifferentStepsRaise ==
    ( /\ HookConfigured
      /\ plan.expected_migration_result = "fail"
      /\ Classified
      /\ \E a, b \in DOMAIN failed_steps :
            /\ failed_steps[a] # Absent
            /\ failed_steps[b] # Absent
            /\ failed_steps[a] # failed_steps[b] )
    => ( /\ pc = "raised"
         /\ outcome = "InconsistentFailureStep"
         /\ checkVmsCalls = 0 )

\* C8 witness: one VM failed at DiskTransfer, the other at PostHook
C8_Witness ==
    /\ HookConfigured
    /\ plan.expected_migration_result = "fail"
    /\ plan.expected_step = "PostHook"
    /\ DOMAIN failed_steps = {"vm-a", "vm-b"}
    /\ failed_steps["vm-a"] = "PostHook"
    /\ failed_steps["vm-b"] = "DiskTransfer"
    /\ outcome = "InconsistentFailureStep"

\* C9: on the expected-failure path with a hook configured, check_vms is
\* reached exactly when all VMs failed at the same step, that step is the
\* expected one and it is "PostHook"; with both validations passed and
\* another common step migrate_vms returns without verification.
C9_VerifyOnlyOnPostHook ==
    (HookConfigured /\ plan.expected_migration_result = "fail" /\ Classified) =>
        LET passed == \E s \in {"PreHook", "DiskTransfer", "PostHook",
                                "VirtualMachineCreation", Absent} :
                          /\ \A vm \in DOMAIN failed_steps : failed_steps[vm] = s
                          /\ s = plan.expected_step
            allPostHook == \A vm \in DOMAIN failed_steps : failed_steps[vm] = "PostHook"
        IN  /\ (pc = "check_vms" \/ checkVmsCalls > 0) <=> (passed /\ allPostHook)
            /\ (passed /\ ~allPostHook) =>
                  (pc = "done" /\ outcome = "returned" /\ checkVmsCalls = 0)

\* C9 witness: one VM, a post-hook, the VM failed at PostHook and check_vms ran
C9_Witness ==
    /\ plan.post_hook.name
    /\ plan.expected_migration_result = "fail"
    /\ plan.virtual_machines = <<"vm-a">>
    /\ DOMAIN failed_steps = {"vm-a"}
    /\ failed_steps["vm-a"] = "PostHook"
    /\ checkVmsCalls = 1
    /\ outcome = "returned"

NonEmptyError(e) == e # Absent /\ e # ""

\* C10: for a VM listed in the Migration status, the lookup returns the name
\* of the first pipeline step, in pipeline order, whose error is non-empty.
C10_FirstErrorStep ==
    ( /\ pc = "looked_up"
      /\ migrationCreated
      /\ migStatus.present
      /\ \E i \in DOMAIN migStatus.vms :
            lookupVm \in {migStatus.vms[i].id, migStatus.vms[i].name} )
    => LET matches == {i \in DOMAIN migStatus.vms :
                          lookupVm \in {migStatus.vms[i].id, migStatus.vms[i].name}}
           first == CHOOSE i \in matches : \A j \in matches : i <= j
           pl == migStatus.vms[first].pipeline
       IN  \A k \in DOMAIN pl :
               ( /\ NonEmptyError(pl[k].error)
                 /\ \A j \in 1..(k - 1) : ~NonEmptyError(pl[j].error) )
               => lookupResult = [ok |-> TRUE, value |-> pl[k].name]

\* C10 witness: an empty error on the first step, errors on the second and
\* the third; the lookup by id answers with the second step
C10_Witness ==
    /\ pc = "looked_up"
    /\ lookupVm = "id-b"
    /\ migStatus.present
    /\ Len(migStatus.vms) = 1
    /\ migStatus.vms[1].name = "vm-b"
    /\ Len(migStatus.vms[1].pipeline) = 3
    /\ migStatus.vms[1].pipeline[1].error = ""
    /\ migStatus.vms[1].pipeline[2].error = "boom"
    /\ migStatus.vms[1].pipeline[3].error = "boom"
    /\ lookupResult = [ok |-> TRUE, value |-> "DiskTransfer"]

\* the status entries that match the looked-up name, by name or by id
LookupMatches ==
    {i \in DOMAIN migStatus.vms :
        lookupVm \in {migStatus.vms[i].id, migStatus.vms[i].name}}

\* C11: a lookup that cannot name a failed step raises one of four error
\* kinds, decided in this order: no Migration of the plan
\* (MigrationNotFoundError), a Migration whose status is missing or lists no
\* VM (MigrationStatusError), a VM that the status does not list
\* (VmNotFoundError), a listed VM whose pipeline is empty or holds no step
\* with an error (VmPipelineError); every other lookup returns a step name.
C11_LookupErrorKinds ==
    pc = "looked_up" =>
        IF ~migrationCreated
        THEN lookupResult = [ok |-> FALSE, value |-> "MigrationNotFoundError"]
        ELSE IF ~migStatus.present \/ Len(migStatus.vms) = 0
        THEN lookupResult = [ok |-> FALSE, value |-> "MigrationStatusError"]
        ELSE IF LookupMatches = {}
        THEN lookupResult = [ok |-> FALSE, value |-> "VmNotFoundError"]
        ELSE LET first == CHOOSE i \in LookupMatches : \A j \in LookupMatches : i <= j
                 pl == migStatus.vms[first].pipeline
             IN  IF \A k \in DOMAIN pl : ~NonEmptyError(pl[k].error)
                 THEN lookupResult = [ok |-> FALSE, value |-> "VmPipelineError"]
                 ELSE lookupResult.ok /\ lookupResult.value \in {pl[k].name : k \in DOMAIN pl}

\* C11 witness: the status is present but lists no VM at all, and the lookup
\* answers MigrationStatusError, not VmNotFoundError
C11_Witness ==
    /\ pc = "looked_up"
    /\ migrationCreated
    /\ migStatus.present
    /\ Len(migStatus.vms) = 0
    /\ lookupVm = "vm-a"
    /\ lookupResult = [ok |-> FALSE, value |-> "MigrationStatusError"]

\* C12: when listing the Migrations fails with a Kubernetes API error, a 404
\* reaches the caller of _find_migration_for_plan as MigrationNotFoundError
\* and any other API error reaches it as the same ApiException, its status
\* unchanged.
C12_ApiErrorMapping ==
    (pc = "found" /\ api.status # 200)
    => IF api.status = 404
       THEN findResult = [ok |-> FALSE, value |-> "MigrationNotFoundError"]
       ELSE findResult = [ok |-> FALSE, value |-> "ApiException", status |-> api.status]

\* C12 witness: a 500 raised after a Migration of the plan was already
\* listed leaves the lookup as ApiException 500
C12_Witness ==
    /\ pc = "found"
    /\ api.status = 500
    /\ Len(api.items) = 1
    /\ api.items[1].plan_ref = ThePlan
    /\ findResult = [ok |-> FALSE, value |-> "ApiException", status |-> 500]

\* what _get_failed_migration_step answers for a VM in the current state
LookupOf(vm) == _get_failed_migration_step(migrationCreated, migStatus, vm)

\* C13 as stated: lookup errors of different kinds reach migrate_vms, through
\* the dict of _get_all_vms_failed_steps, as different signals.
C13_DistinctErrorsDistinctSignals ==
    pc = "collected" =>
        \A a, b \in DOMAIN failed_steps :
            ( /\ ~LookupOf(a).ok
              /\ ~LookupOf(b).ok
              /\ LookupOf(a).value # LookupOf(b).value )
            => failed_steps[a] # failed_steps[b]

\* C13 amended: the four lookup errors are distinct only where
\* _get_failed_migration_step raises them; _get_all_vms_failed_steps catches
\* each of them and records None for the VM, so migrate_vms sees the failed
\* step of a VM whose lookup succeeded and the same None for every VM whose
\* lookup failed, whatever the kind of the error.
C13_LookupErrorsBecomeNone ==
    pc = "collected" =>
        /\ DOMAIN failed_steps = Range(CollectNames)
        /\ \A vm \in DOMAIN failed_steps :
              failed_steps[vm] = IF LookupOf(vm).ok THEN LookupOf(vm).value ELSE Absent

\* C13 witness: vm-a is listed without any step error (VmPipelineError),
\* vm-b is not listed (VmNotFoundError), and both are recorded as None
C13_Witness ==
    /\ pc = "collected"
    /\ LookupOf("vm-a") = [ok |-> FALSE, value |-> "VmPipelineError"]
    /\ LookupOf("vm-b") = [ok |-> FALSE, value |-> "VmNotFoundError"]
    /\ failed_steps["vm-a"] = Absent
    /\ failed_steps["vm-b"] = Absent

\* C14: every Plan that migrate_vms submits references each of its VMs by
\* the id the source inventory reports for the VM of that name, resolved
\* before the Plan is created; a VM name unknown to the inventory ends
\* migrate_vms before a Plan or a Migration is created.
C14_PlanReferencesInventoryIds ==
    /\ planCreated =>
          /\ Len(planSpec.vms) = Len(plan.virtual_machines)
          /\ \A i \in DOMAIN planSpec.vms :
                LET reported == get_vm(inventory.vms, planSpec.vms[i].name, 1)
                IN  reported.ok /\ planSpec.vms[i].id = reported.value.id
    /\ (\E i \in DOMAIN plan.virtual_machines :
            ~get_vm(inventory.vms, plan.virtual_machines[i], 1).ok)
       => (~planCreated /\ ~migrationCreated)

\* C15: for a copy-offload plan the Plan is created with the PVC name
\* template "pvc", the wait for the plan-scoped secret begins only after the
\* Plan was observed Ready, and the Migration is created only after that wait
\* returned; without copy-offload there is no secret wait and the Plan is
\* created with the caller's pvc_name_template.
C15_CopyoffloadSubmission ==
    /\ planCreated =>
          planSpec.pvc_name_template =
              IF run_kwargs.copyoffload THEN "pvc" ELSE run_kwargs.pvc_name_template
    /\ pc = "wait_secret" => (run_kwargs.copyoffload /\ planCreated /\ readyObserved)
    /\ secretObserved => (run_kwargs.copyoffload /\ planSecret /\ readyObserved)
    /\ migrationCreated => (planCreated /\ readyObserved)
    /\ (migrationCreated /\ run_kwargs.copyoffload) => secretObserved
    /\ ~run_kwargs.copyoffload => (pc # "wait_secret" /\ ~secretObserved)

\* C15 witness: a copy-offload plan whose caller asked for another template,
\* submitted to the end: template "pvc", secret observed, Migration created
C15_Witness ==
    /\ run_kwargs.copyoffload
    /\ run_kwargs.pvc_name_template = "{{.VmName}}-disk"
    /\ planSpec.pvc_name_template = "pvc"
    /\ readyObserved
    /\ secretObserved
    /\ migrationCreated

\* the source NICs of a direct check_network call that the map resolves, and
\* those whose MAC a destination NIC carries
MappedNics ==
    {i \in DOMAIN checkArgs.source_nics :
        get_destination(checkArgs.network_map, checkArgs.source_nics[i]) # None}

CorrelatedNics ==
    {i \in DOMAIN checkArgs.source_nics :
        \E j \in DOMAIN checkArgs.destination_nics :
            checkArgs.destination_nics[j].macAddress = checkArgs.source_nics[i].macAddress}

NicFailureRecorded(i) ==
    \E k \in DOMAIN checkResult.failures :
        checkResult.failures[k] = [check |-> "network", nic |-> i]

\* C16: for a source NIC whose network no entry of the network map matches,
\* get_destination returns None and check_network records a check failure
\* for that NIC and returns without an exception, so the checks after it run
\* (stated for VMs whose NICs all have a destination NIC of the same MAC).
C16_UnmappedNicIsRecordedFailure ==
    (pc = "network_checked" /\ CorrelatedNics = DOMAIN checkArgs.source_nics)
    => /\ checkResult.error = "none"
       /\ \A i \in DOMAIN checkArgs.source_nics : i \notin MappedNics => NicFailureRecorded(i)

\* C17: check_network compares, for every source NIC, the network of the
\* destination NIC of the same MAC with the network the map expects, and
\* records a failure for a source NIC whose MAC no destination NIC carries,
\* without skipping it and without an exception (stated for VMs whose NICs
\* are all resolved by the map).
C17_MacCorrelationOrRecordedFailure ==
    (pc = "network_checked" /\ MappedNics = DOMAIN checkArgs.source_nics)
    => /\ checkResult.error = "none"
       /\ \A i \in DOMAIN checkArgs.source_nics :
             IF i \in CorrelatedNics
             THEN LET nic == checkArgs.source_nics[i]
                      first == CHOOSE j \in DOMAIN checkArgs.destination_nics :
                                  /\ checkArgs.destination_nics[j].macAddress = nic.macAddress
                                  /\ \A k \in 1..(j - 1) :
                                        checkArgs.destination_nics[k].macAddress # nic.macAddress
                  IN  NicFailureRecorded(i) <=>
                          checkArgs.destination_nics[first].network
                              # get_destination(checkArgs.network_map, nic).name
             ELSE NicFailureRecorded(i)

\* C18: with the Ceph RBD class as target, a mapping with an accessMode for
\* the storage of the first disk and a mapping without one for the storage of
\* the second, check_storage records no failure when the first destination
\* disk is ReadWriteOnce and the second ReadWriteMany.
C18_PerDiskAccessMode ==
    ( /\ pc = "storage_checked"
      /\ checkArgs.storage_class = CephRbd
      /\ checkArgs.source_disks = <<"ds-1", "ds-2">>
      /\ Len(checkArgs.storage_map) = 2
      /\ \E a, b \in DOMAIN checkArgs.storage_map :
            /\ checkArgs.storage_map[a].source_name = "ds-1"
            /\ checkArgs.storage_map[a].accessMode # Absent
            /\ checkArgs.storage_map[b].source_name = "ds-2"
            /\ checkArgs.storage_map[b].accessMode = Absent
      /\ checkArgs.destination_disks =
            <<[name |-> CephRbd, access_mode |-> <<RWO>>],
              [name |-> CephRbd, access_mode |-> <<RWX>>]>> )
    => (checkResult.failures = <<>> /\ checkResult.error = "none")

\* C19: in check_vms a failed check, be it a recorded mismatch or an
\* exception raised while the check is evaluated, never keeps the remaining
\* checks of the VM or the checks of the remaining VMs from running: check_vms
\* ends only after the loop body completed for every VM of the plan.
C19_FailedCheckNeverAborts ==
    pc \in {"verify_done", "raised"} =>
        /\ pc = "verify_done"
        /\ vlog.verified = Len(vcfg.virtual_machines)

SnapshotFailureRecorded ==
    \E k \in DOMAIN vlog.failures : vlog.failures[k] = [check |-> "source_vm_snapshots"]

RECURSIVE ChangesOf(_, _)
ChangesOf(samples, i) ==
    IF i > Len(samples) THEN <<>>
    ELSE IF i = 1 \/ samples[i] # samples[i - 1]
         THEN <<samples[i]>> \o ChangesOf(samples, i + 1)
         ELSE ChangesOf(samples, i + 1)

\* C24: the poller logs the classification once each time it changes: the
\* lines logged are exactly the samples that differ from the one before
\* them, so consecutive equal samples produce one line and every change of
\* classification produces a line
C24_LogsOncePerChange ==
    /\ statusLog = ChangesOf(sampled, 1)
    /\ \A i \in 1..(Len(statusLog) - 1) : statusLog[i] # statusLog[i + 1]
    /\ last_status = (IF statusLog = <<>> THEN "" ELSE statusLog[Len(statusLog)])

\* three samples were taken, the first two alike: two lines were logged
C24_Witness ==
    /\ Len(sampled) = 3
    /\ sampled[1] = sampled[2]
    /\ sampled[3] # sampled[2]
    /\ Len(statusLog) = 2

\* ---------------------------------------------------------------- C27
\* C27: gen_network_map_list returns one entry per source network of the
\* inventory, in inventory order; with pod_only false the entry at index 0
\* has the pod destination and every later entry the multus destination
\* (multus name, target namespace); with pod_only true every entry has the
\* pod destination
C27_DestinationsByPosition ==
    pc = "network_map_generated" =>
        LET out == network_map_list.list
        IN  /\ Len(out) = Len(netArgs.networks)
            /\ \A i \in 1..Len(out) :
                  /\ out[i].source = netArgs.networks[i]
                  /\ out[i].destination.type =
                         (IF netArgs.pod_only \/ i = 1 THEN "pod" ELSE "multus")
                  /\ out[i].destination.type = "multus" =>
                         /\ out[i].destination.name = netArgs.multus_network_name
                         /\ out[i].destination.namespace = netArgs.target_namespace

\* the same source network came first and again later: it was sent to the
\* pod network the first time and to the multus network the second time
C27_Witness ==
    /\ pc = "network_map_generated"
    /\ ~netArgs.pod_only
    /\ Len(network_map_list.list) = 3
    /\ network_map_list.list[1].source = network_map_list.list[3].source
    /\ network_map_list.list[1].destination.type = "pod"
    /\ network_map_list.list[3].destination.type = "multus"

ListedForPlan == {i \in DOMAIN api.items : api.items[i].plan_ref = ThePlan}

\* C29: of a listing that ended normally, _find_migration_for_plan returns a
\* listed Migration whose spec.plan name and namespace are the plan's and
\* whose creationTimestamp (the epoch where missing) is the greatest among
\* the plan's Migrations, wherever it stands in the listing; with no
\* Migration of the plan listed it raises MigrationNotFoundError, so a
\* Migration of another plan is never returned
C29_LatestMigrationOfThePlan ==
    (pc = "found" /\ api.status = 200) =>
        IF ListedForPlan = {}
        THEN findResult = [ok |-> FALSE, value |-> "MigrationNotFoundError"]
        ELSE /\ findResult.ok
             /\ findResult.value.uid \in ListedForPlan
             /\ findResult.value = api.items[findResult.value.uid]
             /\ \A i \in ListedForPlan :
                    CreationKey(api.items[i]) <= CreationKey(findResult.value)

\* the newest Migration of the plan was listed first, a Migration of another
\* plan second and an undated Migration of the plan last: the first is
\* returned
C29_Witness ==
    /\ pc = "found"
    /\ api.status = 200
    /\ Len(api.items) = 3
    /\ api.items[1].plan_ref = ThePlan /\ api.items[1].ts = <<2>>
    /\ api.items[2].plan_ref # ThePlan /\ api.items[2].ts = <<2>>
    /\ api.items[3].plan_ref = ThePlan /\ api.items[3].ts = <<>>
    /\ findResult.ok
    /\ findResult.value.uid = 1

\* ---------------------------------------------------------------- C30
\* exactly one of the name and the namespace of a hook reference is set
ExactlyOneSet(hook) ==
    \/ hook.name /\ ~hook.namespace
    \/ ~hook.name /\ hook.namespace

\* C30: with exactly one of name and namespace set for the pre-hook or for
\* the post-hook, migrate_vms ends with ValueError, and in that execution no
\* Plan and no Migration is created, no sample of the Plan is taken, no
\* failure is classified and check_vms is not called
C30_InconsistentHookRejectedFirst ==
    (ExactlyOneSet(plan.pre_hook) \/ ExactlyOneSet(plan.post_hook)) =>
        /\ pc \in {"start", "raised"}
        /\ pc = "raised" => outcome = "ValueError"
        /\ ~planCreated
        /\ ~migrationCreated
        /\ sampled = <<>>
        /\ wait = NoWait
        /\ classifierCalls = 0
        /\ checkVmsCalls = 0

\* a post-hook name without a namespace, the pre-hook reference complete:
\* migrate_vms raised ValueError
C30_Witness ==
    /\ plan.pre_hook.name /\ plan.pre_hook.namespace
    /\ plan.post_hook.name /\ ~plan.post_hook.namespace
    /\ pc = "raised"
    /\ outcome = "ValueError"
    /\ ~planCreated

\* ---------------------------------------------------------------- C21
\* the VMs of the vCenter the query of the last vms call screens in
ScreenedVms ==
    SelectSeq(vsphere.all_vms,
              LAMBDA vm : vmsCall.query = "" \/ PatSearch(vmsCall.query, vm.name))

\* a VM without a datastore or without its VMX file, or on an inaccessible
\* datastore
Unhealthy(vm) ==
    \/ ~vm.health.datastore
    \/ vm.health.search.state = "error" /\ vm.health.search.msg = "vmx was not found"
    \/ vm.health.connectionState = "inaccessible"

\* C21: vms(query) is all-or-nothing: when it got to enumerate, it returns
\* the screened VMs, all of them, only if each passes both health checks;
\* with one screened VM missing its VMX file or on an inaccessible datastore
\* the call raises and returns no VM
C21_AllOrNothing ==
    (vmsCall.called /\ vmsCall.enumerated_on = "live") =>
        IF \E i \in DOMAIN ScreenedVms : Unhealthy(ScreenedVms[i])
        THEN ~vmsCall.result.ok /\ vmsCall.result.vms = <<>>
        ELSE IF ScreenedVms = <<>>
             THEN vmsCall.result = VmsRaise("NoVmsFoundError")
             ELSE vmsCall.result = VmsReturn(ScreenedVms)

\* two VMs match the query, the first healthy and the second without its VMX
\* file: the call raised and returned neither
C21_Witness ==
    /\ vmsCall.called
    /\ vmsCall.enumerated_on = "live"
    /\ vmsCall.query = "mtv"
    /\ Len(ScreenedVms) = 2
    /\ ~Unhealthy(ScreenedVms[1])
    /\ Unhealthy(ScreenedVms[2])
    /\ ~vmsCall.result.ok
    /\ vmsCall.result.vms = <<>>

\* ---------------------------------------------------------------- C22
\* C22: vms probes the session first: it connects again exactly when the
\* probe failed, that is when the session was not live, and it enumerates
\* on a live session only, whatever connect calls, disconnects and session
\* expiries came before
C22_ProbeThenReconnect ==
    vmsCall.called =>
        /\ vmsCall.probe = (vmsCall.session_before = "live")
        /\ vmsCall.reconnected = ~vmsCall.probe
        /\ vmsCall.enumerated_on \in {"none", "live"}
        /\ vmsCall.enumerated_on = "none" => vmsCall.result = VmsRaise("ConnectError")
        /\ vmsCall.result.error # "NotAuthenticated"

\* the session had gone stale: the probe failed, vms connected again and
\* returned the VMs
C22_Witness ==
    /\ vmsCall.called
    /\ vmsCall.session_before = "stale"
    /\ ~vmsCall.probe
    /\ vmsCall.reconnected
    /\ vmsCall.enumerated_on = "live"
    /\ vmsCall.result.ok
    /\ Len(vmsCall.result.vms) = 3

\* ---------------------------------------------------------------- C23
\* C23 as stated: once the scope of the source provider has ended, by
\* completing, with an exception or with a skip, a provider that was
\* connected has been disconnected.
C23_DisconnectOnEveryExit ==
    (pc \in {"scope_done", "scope_raised", "scope_skipped"} /\ scope.connected)
        => scope.disconnected

\* ---------------------------------------------------------------- C26
\* C26 as stated: run_ceph_cleanup only observes: it never changes the full
\* ratio, purges snapshots or removes a volume or a trash entry.
C26_MonitorOnlyObserves ==
    /\ ceph.changed = {}
    /\ ceph.full_ratio = 85
    /\ ceph.purged = {}

\* C26 amended: an iteration of run_ceph_cleanup that finds the pool less
\* than 60 used changes nothing; an iteration that finds it 60 or more used
\* and completes leaves the full ratio at 0.90, the snapshots of every image
\* named *snap* purged, no other image named *vol* in the pool and the trash
\* empty, and keeps every other image
C26_CleansAboveThreshold ==
    [][(pc = "ceph_loop" /\ ceph'.iterations = ceph.iterations + 1) =>
          IF ceph.percent_used < 60
          THEN /\ ceph'.full_ratio = ceph.full_ratio
               /\ ceph'.images = ceph.images
               /\ ceph'.purged = ceph.purged
               /\ ceph'.trash = ceph.trash
               /\ ceph'.changed = ceph.changed
          ELSE /\ ceph'.last \in {"cleaned", "failed"}
               /\ ceph'.last = "cleaned" =>
                      /\ ceph'.full_ratio = 90
                      /\ \A line \in ceph.images :
                             IF HasSnap(line)
                             THEN line \in ceph'.images /\ line \in ceph'.purged
                             ELSE IF HasVol(line) THEN line \notin ceph'.images
                             ELSE line \in ceph'.images
                      /\ ceph'.trash = {}
          ]_vars

\* a pool 90 used held a volume, a snapshot image and a trash entry: the
\* iteration removed the volume and the trash entry and purged the snapshots
C26_Witness ==
    /\ pc = "ceph_loop"
    /\ ceph.last = "cleaned"
    /\ ceph.iterations = 1
    /\ ceph.percent_used = 90
    /\ ceph.full_ratio = 90
    /\ ceph.changed = {"set-full-ratio", "snap purge", "rm", "trash remove"}
    /\ ceph.images = {"csi-snap-1", "image-3"}

\* ---------------------------------------------------------------- C28
\* the rank of an operation in the order cancel, archive, delete
Rank(op) == IF op = "cancel" THEN 1 ELSE IF op = "archive" THEN 2 ELSE 3

====
